---- MODULE Spec2Model ----
(***************************************************************************)
(* girschworks_cms: the Express + Prisma API (routes pages, sites, media,  *)
(* and AuthMiddleware) as a state machine.  Every `await db.*` of a        *)
(* handler is one atomic step of the request that runs it; requests run in *)
(* the slots Procs and interleave between their database operations.       *)
(* authenticate, requireRole, the zod parse and the handler's first        *)
(* database query form the first step of a request (Start...): the only    *)
(* write to the user table is the insert of POST /auth/register, no row is *)
(* ever changed or deleted, so nothing can interleave observably between   *)
(* them.                                                                   *)
(***************************************************************************)
EXTENDS Integers, Sequences, FiniteSets, TLC

VARIABLES tenants, users, sites, pages, media, nextId, now, req, out

vars == <<tenants, users, sites, pages, media, nextId, now, req, out>>
dbVars == <<tenants, users, sites, pages, media, nextId>>

(* ------------------------------ bounds -------------------------------- *)
NumProcs == 2     \* request slots (requests in flight at once)
MaxPageId == 3    \* page rows ever created
MaxSiteId == 4    \* site rows ever created (three exist initially)
MaxMediaId == 2   \* media rows ever created
MaxTime == 2      \* clock values 0..MaxTime
MaxTenantId == 4  \* tenant rows ever created (two exist initially)

Procs == 1..NumProcs

(* An optional value: <<>> is absent / null, <<v>> is present.             *)
None == <<>>
Some(v) == <<v>>
IsSome(o) == o # <<>>
Get(o) == o[1]

(* ------------------------------ strings ------------------------------- *)
(* Text is a sequence of characters, so that the slug pattern is computed. *)
SlugChars == {"a", "b", "h", "0", "-"}   \* the characters of [a-z0-9-] in use
SlugHome == <<"h">>
SlugAbout == <<"a", "-", "b">>
SlugUpper == <<"A">>                      \* fails the pattern

(* An email address is a sequence of characters too: z.string().email()   *)
(* asks for one "@" with text on both sides.                               *)
Email(local) == <<local, "@", "x">>
NotAnEmail == <<"n", "x">>
IsEmail(s) ==
    \E i \in 2..(Len(s) - 1) :
        s[i] = "@" /\ \A j \in (1..Len(s)) \ {i} : s[j] # "@"

(* Passwords, and what bcrypt makes of them: compare(p, h) holds exactly   *)
(* when h is a hash of p.                                                  *)
Password == <<"p", "a", "s", "s", "w", "o", "r", "d">>
OtherPassword == <<"p", "a", "s", "s", "w", "o", "r", "t">>
ShortPassword == <<"p", "w">>
bcryptHash(password) == <<"$2b$12$", password>>
bcryptCompare(password, hash) == hash = bcryptHash(password)

Roles == {"SUPER_ADMIN", "ADMIN", "EDITOR", "VIEWER"}
Statuses == {"DRAFT", "PUBLISHED", "ARCHIVED"}

(* ------------------------------- ids ---------------------------------- *)
(* Prisma ids are generated and never reused: each table hands out the     *)
(* next number of its counter.                                             *)
TenantIds == {1, 2}
SiteIds == 1..MaxSiteId
PageIds == 1..MaxPageId
MediaIds == 1..MaxMediaId

ImageMimeTypes == {"image/png"}          \* startsWith("image/")
DocumentMimeTypes == {"application/pdf", "application/msword",
    "application/vnd.openxmlformats-officedocument.wordprocessingml.document",
    "text/plain"}
VideoMimeTypes == {"video/mp4"}          \* startsWith("video/")

(* ------------------------------ responses ----------------------------- *)
(* status, the body's `error` and `message`, the rows a success returns    *)
(* (ids of the tenants, sites, pages, media and users whose data the body  *)
(* carries) and the tokens it issues.                                      *)
Resp(status, error, message) ==
    [status |-> status, error |-> error, message |-> message,
     tenants |-> {}, sites |-> {}, pages |-> {}, media |-> {}, users |-> {},
     tokens |-> {}]
Ok(status, message) == Resp(status, "", message)
NoResp == Resp(0, "", "")
InternalError(error) == Resp(500, error, "Internal server error")
ValidationError == Resp(400, "Validation error", "")

(* --------------------------- request slots ---------------------------- *)
NoData ==
    [siteId |-> None, slug |-> None, status |-> None, isHomePage |-> None,
     authorId |-> None, publishedAt |-> None, domain |-> None,
     filename |-> None, mimeType |-> None, isPublished |-> None,
     tenantId |-> None, email |-> None, password |-> None]
Idle ==
    [pc |-> "idle", route |-> "", uid |-> 0, id |-> 0, data |-> NoData,
     existing |-> None, cleared |-> FALSE]

(* A request suspended at its next database operation: its route, the      *)
(* caller (req.user), the :id parameter, the parsed body and the columns   *)
(* of the row it read (existingPage, existingMedia) that it uses later.    *)
(* cleared records what the request's updateMany returned (count > 0): the *)
(* handler drops that result, the slot keeps it as the request's history.  *)
At(pc, route, uid, id, data, existing) ==
    [pc |-> pc, route |-> route, uid |-> uid, id |-> id, data |-> data,
     existing |-> existing, cleared |-> FALSE]

Free(p) == req[p].pc = "idle"
PageColumns(row) == [siteId |-> row.siteId, status |-> row.status]
MediaColumns(row) == [siteId |-> row.siteId]

(* ------------------------------- Init --------------------------------- *)
(* Two tenants; tenant 1 has two editors, an admin, a viewer and a super   *)
(* admin, tenant 2 an admin, an editor and a deactivated editor; tenant 1  *)
(* owns sites 1 and 2, tenant 2 site 3.  Every user's password is          *)
(* Password.                                                               *)
User(tenantId, role, isActive, local) ==
    [tenantId |-> tenantId, role |-> role, isActive |-> isActive,
     email |-> Email(local), password |-> bcryptHash(Password)]
InitUsers ==
    (1 :> User(1, "EDITOR", TRUE, "1")) @@
    (2 :> User(1, "EDITOR", TRUE, "2")) @@
    (3 :> User(1, "ADMIN", TRUE, "3")) @@
    (4 :> User(1, "VIEWER", TRUE, "4")) @@
    (5 :> User(1, "SUPER_ADMIN", TRUE, "5")) @@
    (6 :> User(2, "ADMIN", TRUE, "6")) @@
    (7 :> User(2, "EDITOR", TRUE, "7")) @@
    (8 :> User(2, "EDITOR", FALSE, "8"))
InitTenants ==
    (1 :> [domain |-> "one"]) @@ (2 :> [domain |-> "two"])
InitSites ==
    (1 :> [tenantId |-> 1, domain |-> None, isPublished |-> FALSE]) @@
    (2 :> [tenantId |-> 1, domain |-> None, isPublished |-> FALSE]) @@
    (3 :> [tenantId |-> 2, domain |-> None, isPublished |-> FALSE])

Init ==
    /\ tenants = InitTenants
    /\ users = InitUsers
    /\ sites = InitSites
    /\ pages = <<>>
    /\ media = <<>>
    /\ nextId = [site |-> 4, page |-> 1, media |-> 1, tenant |-> 3, user |-> 9]
    /\ now = 0
    /\ req = [p \in Procs |-> Idle]
    /\ out = NoResp

(* --------------------------- the user table -------------------------- *)
(* No route of the program writes a user row after register, but the       *)
(* lookups read the isActive and role columns (auth.ts:58-63,              *)
(* media.ts:894-899): the rows are changed from outside, by whoever        *)
(* administers the database.  A user is deactivated, a user who wrote no   *)
(* page is deleted, a role is changed.  The changes fall between requests: *)
(* a request in flight keeps the req.user it was given.                    *)
UserDeactivated(u) ==
    /\ \A p \in Procs : req[p].pc = "idle"
    /\ u \in DOMAIN users /\ users[u].isActive
    /\ users' = [users EXCEPT ![u].isActive = FALSE]
    /\ UNCHANGED <<tenants, sites, pages, media, nextId, now, req, out>>
UserDeleted(u) ==
    /\ \A p \in Procs : req[p].pc = "idle"
    /\ u \in DOMAIN users
    /\ \A i \in DOMAIN pages : pages[i].authorId # u
    /\ users' = [i \in DOMAIN users \ {u} |-> users[i]]
    /\ UNCHANGED <<tenants, sites, pages, media, nextId, now, req, out>>
UserRoleChanged(u, role) ==
    /\ \A p \in Procs : req[p].pc = "idle"
    /\ u \in DOMAIN users /\ users[u].role # role
    /\ users' = [users EXCEPT ![u].role = role]
    /\ UNCHANGED <<tenants, sites, pages, media, nextId, now, req, out>>

(* --------------------------- AuthMiddleware --------------------------- *)
(* A mutant: the lookup of authenticate without isActive in its where.     *)
authenticate_IgnoresIsActive(u) ==
    IF u \in DOMAIN users
    THEN Some([id |-> u, role |-> users[u].role, tenantId |-> users[u].tenantId])
    ELSE None

(* --------------------------- AuthMiddleware --------------------------- *)
(* authenticate: the bearer token names user u; the user row is read and   *)
(* must exist and be active.  req.user is built from the row.              *)
authenticate(u) ==
    IF u \in DOMAIN users /\ users[u].isActive
    THEN Some([id |-> u, role |-> users[u].role, tenantId |-> users[u].tenantId])
    ELSE None
Unauthenticated == Resp(401, "Invalid token", "User not found or inactive")

(* A mutant: the site routes admit editors too.                            *)
AdminRoles_WithEditor == {"ADMIN", "EDITOR", "SUPER_ADMIN"}

(* The role lists the routes pass to requireRole.                          *)
EditorRoles == {"ADMIN", "EDITOR", "SUPER_ADMIN"}
AdminRoles == {"ADMIN", "SUPER_ADMIN"}

(* A mutant: requireRole lets every authenticated caller through.          *)
requireRole_AdmitsAll(roles, user) == TRUE

(* requireRole(...roles): TRUE when the request goes on to the handler.    *)
requireRole(roles, user) == user.role \in roles
(* roles.join(" or "), in the order the routes list them.                  *)
JoinOr(roles) ==
    IF "EDITOR" \in roles THEN "ADMIN or EDITOR or SUPER_ADMIN"
    ELSE "ADMIN or SUPER_ADMIN"
RoleDenied(roles, user) ==
    Resp(403, "Insufficient permissions",
         "Required role: " \o JoinOr(roles) \o ", your role: " \o user.role)

(* ------------------------------ schemas ------------------------------- *)
(* zod objects strip the keys they do not declare; parse gives None when   *)
(* a declared key fails its rule (the handler then answers 400).           *)
ValidSlug(s) == Len(s) >= 1 /\ \A i \in 1..Len(s) : s[i] \in SlugChars
InStatuses(s) == s \in Statuses
IsBool(b) == b \in BOOLEAN
(* .optional(): an absent key passes, a present one must pass its rule.    *)
OptSlug(o) == ~IsSome(o) \/ ValidSlug(Get(o))
OptStatus(o) == ~IsSome(o) \/ InStatuses(Get(o))
OptBool(o) == ~IsSome(o) \/ IsBool(Get(o))
OptNonEmpty(o) == ~IsSome(o) \/ Get(o) # ""
OptString(o) == ~IsSome(o) \/ Get(o) \in STRING

CreatePageSchema(body) ==
    IF /\ IsSome(body.siteId)
       /\ IsSome(body.slug) /\ ValidSlug(Get(body.slug))
       /\ OptStatus(body.status)
       /\ OptBool(body.isHomePage)
    THEN Some([NoData EXCEPT !.siteId = body.siteId, !.slug = body.slug,
                             !.status = body.status,
                             !.isHomePage = body.isHomePage])
    ELSE None

(* A mutant: the update schema lets the publishedAt key through.           *)
UpdatePageSchema_KeepsPublishedAt(body) ==
    IF /\ OptSlug(body.slug)
       /\ OptStatus(body.status)
       /\ OptBool(body.isHomePage)
    THEN Some([NoData EXCEPT !.slug = body.slug, !.status = body.status,
                             !.isHomePage = body.isHomePage,
                             !.publishedAt = body.publishedAt])
    ELSE None

UpdatePageSchema(body) ==
    IF /\ OptSlug(body.slug)
       /\ OptStatus(body.status)
       /\ OptBool(body.isHomePage)
    THEN Some([NoData EXCEPT !.slug = body.slug, !.status = body.status,
                             !.isHomePage = body.isHomePage])
    ELSE None

(* A mutant: the publish schema admits PUBLISHED only.                     *)
PublishPageSchema_PublishedOnly(body) ==
    IF IsSome(body.status) /\ Get(body.status) = "PUBLISHED"
    THEN Some([NoData EXCEPT !.status = body.status])
    ELSE None

PublishPageSchema(body) ==
    IF IsSome(body.status) /\ InStatuses(Get(body.status))
    THEN Some([NoData EXCEPT !.status = body.status])
    ELSE None

(* ------------------------------ queries ------------------------------- *)
(* Mutants: a lookup by id that leaves the tenant out of its where.        *)
FindSite_AnyTenant(id, tenantId) == IF id \in DOMAIN sites THEN Some(id) ELSE None
FindPage_AnyTenant(id, tenantId) == IF id \in DOMAIN pages THEN Some(id) ELSE None
FindMedia_AnyTenant(id, tenantId) == IF id \in DOMAIN media THEN Some(id) ELSE None

(* db.site.findFirst({ where: { id, tenantId } })                          *)
FindSite(id, tenantId) ==
    IF id \in DOMAIN sites /\ sites[id].tenantId = tenantId
    THEN Some(id) ELSE None

(* db.page.findFirst({ where: { id, site: { tenantId } } })                *)
FindPage(id, tenantId) ==
    IF id \in DOMAIN pages /\ sites[pages[id].siteId].tenantId = tenantId
    THEN Some(id) ELSE None

(* db.media.findFirst({ where: { id, site: { tenantId } } })               *)
FindMedia(id, tenantId) ==
    IF id \in DOMAIN media /\ sites[media[id].siteId].tenantId = tenantId
    THEN Some(id) ELSE None

(* A mutant: the slug is looked up across all sites.                       *)
PageWithSlug_AnySite(siteId, slug) ==
    \E i \in DOMAIN pages : pages[i].slug = slug

(* db.page.findUnique({ where: { siteId_slug } })                          *)
PageWithSlug(siteId, slug) ==
    \E i \in DOMAIN pages : pages[i].siteId = siteId /\ pages[i].slug = slug

(* A mutant: the updateMany matches no row.                                *)
ClearHomePages_NoRow(siteId, except) == pages

(* A mutant: the updateMany without siteId in its where.                   *)
ClearHomePages_EverySite(siteId, except) ==
    [i \in DOMAIN pages |->
        IF pages[i].isHomePage /\ i \notin except
        THEN [pages[i] EXCEPT !.isHomePage = FALSE]
        ELSE pages[i]]

(* db.page.updateMany({ where: { siteId, isHomePage: true, id: { not } },  *)
(*                      data: { isHomePage: false } })                     *)
ClearHomePages(siteId, except) ==
    [i \in DOMAIN pages |->
        IF pages[i].siteId = siteId /\ pages[i].isHomePage /\ i \notin except
        THEN [pages[i] EXCEPT !.isHomePage = FALSE]
        ELSE pages[i]]

(* db.page.update({ where: { id }, data }): the keys present in data       *)
(* overwrite the row's columns.                                            *)
Put(old, o) == IF IsSome(o) THEN Get(o) ELSE old
ApplyPageData(row, data) ==
    [row EXCEPT !.slug = Put(@, data.slug),
                !.status = Put(@, data.status),
                !.isHomePage = Put(@, data.isHomePage),
                !.siteId = Put(@, data.siteId),
                !.authorId = Put(@, data.authorId),
                !.publishedAt = Put(@, data.publishedAt)]

(* The unique index (siteId, slug) of Page: no other row holds the pair.   *)
PageSlugFree(siteId, slug, self) ==
    \A i \in DOMAIN pages \ self :
        ~(pages[i].siteId = siteId /\ pages[i].slug = slug)

Remove(table, ids) == [i \in DOMAIN table \ ids |-> table[i]]

(* ------------------------- common request steps ----------------------- *)
(* res.status(...).json(...): the request is answered and leaves its slot.  *)
Answer(p, resp) ==
    /\ req' = [req EXCEPT ![p] = Idle]
    /\ out' = resp
(* The first step of a request: what the handler answers at once, or the  *)
(* slot it is suspended in.                                                *)
Reply(resp) == [slot |-> Idle, resp |-> resp]
Continue(slot) == [slot |-> slot, resp |-> NoResp]
Start(p, begin) ==
    /\ req' = [req EXCEPT ![p] = begin.slot]
    /\ out' = IF begin.slot = Idle THEN begin.resp ELSE out
    /\ UNCHANGED <<dbVars, now>>
Goto(p, pc) ==
    /\ req' = [req EXCEPT ![p].pc = pc]
    /\ UNCHANGED out

(* The rows a page response carries: the page, its author (include:        *)
(* author) and its site (include: site).                                   *)
PageResp(status, message, ids, table) ==
    [Ok(status, message) EXCEPT
        !.pages = ids,
        !.users = {table[i].authorId : i \in ids},
        !.sites = {table[i].siteId : i \in ids}]

InFlight(route) == Cardinality({q \in Procs : ~Free(q) /\ req[q].route = route})

(* ------------------------------ POST /pages --------------------------- *)
NextAfterSlugCheck(data, clear, write) ==
    IF data.isHomePage = Some(TRUE) THEN clear ELSE write

PostPages(u, body) ==
    LET route == "POST /pages"
        user == authenticate(u)
        data == CreatePageSchema(body)
    IN  IF ~IsSome(user) THEN Reply(Unauthenticated)
        ELSE IF ~requireRole(EditorRoles, Get(user))
        THEN Reply(RoleDenied(EditorRoles, Get(user)))
        ELSE IF ~IsSome(data) THEN Reply(ValidationError)
        ELSE IF ~IsSome(FindSite(Get(Get(data).siteId), Get(user).tenantId))
        THEN Reply(Resp(404, "Site not found",
                 "The specified site does not exist or you don't have access to it"))
        ELSE Continue(
                 At("createPage.findUnique", route, u, 0, Get(data), None))
PostPagesStart(p, u, body) ==
    /\ Free(p)
    /\ nextId.page + InFlight("POST /pages") <= MaxPageId
    /\ Start(p, PostPages(u, body))

(* A mutant: the handler clears the site's home pages before it looks the  *)
(* slug up.                                                                *)
PostPagesSlugCheck_AfterClear(p) ==
    /\ req[p].pc = "createPage.findUnique"
    /\ LET r == req[p] IN
       /\ pages' = IF r.data.isHomePage = Some(TRUE)
                   THEN ClearHomePages(Get(r.data.siteId), {})
                   ELSE pages
       /\ IF PageWithSlug(Get(r.data.siteId), Get(r.data.slug))
          THEN Answer(p, Resp(400, "Slug already exists",
                   "A page with this slug already exists in this site"))
          ELSE Goto(p, NextAfterSlugCheck(r.data, "createPage.updateMany",
                                          "createPage.create"))
    /\ UNCHANGED <<tenants, users, sites, media, nextId, now>>

PostPagesSlugCheck(p) ==
    /\ req[p].pc = "createPage.findUnique"
    /\ LET r == req[p] IN
       IF PageWithSlug(Get(r.data.siteId), Get(r.data.slug))
       THEN Answer(p, Resp(400, "Slug already exists",
                "A page with this slug already exists in this site"))
       ELSE Goto(p, NextAfterSlugCheck(r.data, "createPage.updateMany",
                                       "createPage.create"))
    /\ UNCHANGED <<dbVars, now>>

PostPagesClearHome(p) ==
    /\ req[p].pc = "createPage.updateMany"
    /\ pages' = ClearHomePages(Get(req[p].data.siteId), {})
    /\ req' = [req EXCEPT ![p].pc = "createPage.create",
                          ![p].cleared = (pages' # pages)]
    /\ UNCHANGED out
    /\ UNCHANGED <<tenants, users, sites, media, nextId, now>>

(* A mutant: every created page gets a publishedAt.                        *)
NewPage_AlwaysStamped(data, uid, time) ==
    LET status == IF IsSome(data.status) THEN Get(data.status) ELSE "DRAFT" IN
    [siteId |-> Get(data.siteId),
     slug |-> Get(data.slug),
     status |-> status,
     isHomePage |-> IF IsSome(data.isHomePage) THEN Get(data.isHomePage) ELSE FALSE,
     authorId |-> uid,
     publishedAt |-> Some(time)]

(* The row db.page.create inserts.                                         *)
NewPage(data, uid, time) ==
    LET status == IF IsSome(data.status) THEN Get(data.status) ELSE "DRAFT" IN
    [siteId |-> Get(data.siteId),
     slug |-> Get(data.slug),
     status |-> status,
     isHomePage |-> IF IsSome(data.isHomePage) THEN Get(data.isHomePage) ELSE FALSE,
     authorId |-> uid,
     publishedAt |-> IF status = "PUBLISHED" THEN Some(time) ELSE None]

(* db.page.create throws (answered 500 by the catch block) when the site   *)
(* row is gone (foreign key) or the (siteId, slug) index rejects the row.  *)
PostPagesCreate(p) ==
    /\ req[p].pc = "createPage.create"
    /\ LET r == req[p]
           id == nextId.page
           row == NewPage(r.data, r.uid, now)
       IN  IF \/ row.siteId \notin DOMAIN sites
              \/ row.authorId \notin DOMAIN users
              \/ ~PageSlugFree(row.siteId, row.slug, {})
           THEN /\ Answer(p, InternalError("Failed to create page"))
                /\ UNCHANGED <<pages, nextId>>
           ELSE /\ pages' = (id :> row) @@ pages
                /\ nextId' = [nextId EXCEPT !.page = @ + 1]
                /\ Answer(p, 
                      PageResp(201, "Page created successfully", {id}, pages'))
    /\ UNCHANGED <<tenants, users, sites, media, now>>

(* ---------------------------- PUT /pages/:id -------------------------- *)
PageNotFound ==
    Resp(404, "Page not found",
         "The requested page does not exist or you don't have access to it")
(* A mutant: "not owner" is answered the way a role outside the list is.   *)
NotOwner_AsRoleDenied(message) == RoleDenied(EditorRoles, [role |-> "VIEWER"])

NotOwner(message) == Resp(403, "Insufficient permissions", message)

(* A mutant: only the author may act, whatever the role.                   *)
OwnsPage_AuthorOnly(user, page) == page.authorId = user.id

(* A mutant: the ownership check is skipped.                               *)
OwnsPage_Skipped(user, page) == TRUE

(* Editors can only act on their own pages, admins on any.                 *)
OwnsPage(user, page) == ~(user.role = "EDITOR" /\ page.authorId # user.id)

(* A mutant: the slug lookup runs whenever the body carries a slug, also   *)
(* when it is the page's own.                                              *)
PutPage_AlwaysChecksSlug(u, id, body) ==
    LET route == "PUT /pages/:id"
        user == authenticate(u)
        data == UpdatePageSchema(body)
        found == FindPage(id, Get(user).tenantId)
        existingPage == pages[id]
    IN  IF ~IsSome(user) THEN Reply(Unauthenticated)
        ELSE IF ~requireRole(EditorRoles, Get(user))
        THEN Reply(RoleDenied(EditorRoles, Get(user)))
        ELSE IF ~IsSome(data) THEN Reply(ValidationError)
        ELSE IF ~IsSome(found) THEN Reply(PageNotFound)
        ELSE IF ~OwnsPage(Get(user), existingPage)
        THEN Reply(NotOwner("You can only edit your own pages"))
        ELSE Continue(
                 At(IF IsSome(Get(data).slug)
                    THEN "updatePage.findUnique"
                    ELSE NextAfterSlugCheck(Get(data), "updatePage.updateMany",
                                            "updatePage.update"),
                    route, u, id, Get(data), Some(PageColumns(existingPage))))

PutPage(u, id, body) ==
    LET route == "PUT /pages/:id"
        user == authenticate(u)
        data == UpdatePageSchema(body)
        found == FindPage(id, Get(user).tenantId)
        existingPage == pages[id]
    IN  IF ~IsSome(user) THEN Reply(Unauthenticated)
        ELSE IF ~requireRole(EditorRoles, Get(user))
        THEN Reply(RoleDenied(EditorRoles, Get(user)))
        ELSE IF ~IsSome(data) THEN Reply(ValidationError)
        ELSE IF ~IsSome(found) THEN Reply(PageNotFound)
        ELSE IF ~OwnsPage(Get(user), existingPage)
        THEN Reply(NotOwner("You can only edit your own pages"))
        ELSE Continue(
                 At(IF IsSome(Get(data).slug) /\ Get(Get(data).slug) # existingPage.slug
                    THEN "updatePage.findUnique"
                    ELSE NextAfterSlugCheck(Get(data), "updatePage.updateMany",
                                            "updatePage.update"),
                    route, u, id, Get(data), Some(PageColumns(existingPage))))
PutPageStart(p, u, id, body) ==
    /\ Free(p)
    /\ Start(p, PutPage(u, id, body))

PutPageSlugCheck(p) ==
    /\ req[p].pc = "updatePage.findUnique"
    /\ LET r == req[p] IN
       IF PageWithSlug(Get(r.existing).siteId, Get(r.data.slug))
       THEN Answer(p, Resp(400, "Slug already exists",
                "A page with this slug already exists in this site"))
       ELSE Goto(p, NextAfterSlugCheck(r.data, "updatePage.updateMany",
                                       "updatePage.update"))
    /\ UNCHANGED <<dbVars, now>>

PutPageClearHome(p) ==
    /\ req[p].pc = "updatePage.updateMany"
    /\ pages' = ClearHomePages(Get(req[p].existing).siteId, {req[p].id})
    /\ req' = [req EXCEPT ![p].pc = "updatePage.update",
                          ![p].cleared = (pages' # pages)]
    /\ UNCHANGED out
    /\ UNCHANGED <<tenants, users, sites, media, nextId, now>>

(* A mutant: every request for PUBLISHED stamps, whatever the row holds.   *)
StampPublishedAt_Always(data, existingPage, time) ==
    IF data.status = Some("PUBLISHED")
    THEN [data EXCEPT !.publishedAt = Some(Some(time))]
    ELSE data

(* A mutant: the stamp is set on the way from DRAFT to PUBLISHED only.      *)
StampPublishedAt_FromDraftOnly(data, existingPage, time) ==
    IF data.status = Some("PUBLISHED") /\ existingPage.status = "DRAFT"
    THEN [data EXCEPT !.publishedAt = Some(Some(time))]
    ELSE data

(* updateData: the parsed body, plus publishedAt = new Date() when the     *)
(* status is changing to PUBLISHED (compared with the row as it was read). *)
StampPublishedAt(data, existingPage, time) ==
    IF data.status = Some("PUBLISHED") /\ existingPage.status # "PUBLISHED"
    THEN [data EXCEPT !.publishedAt = Some(Some(time))]
    ELSE data

(* db.page.update({ where: { id }, data }) throws (answered 500) when the  *)
(* row is gone or the (siteId, slug) index rejects the new slug.           *)
PageUpdateFails(id, data) ==
    \/ id \notin DOMAIN pages
    \/ /\ IsSome(data.slug)
       /\ ~PageSlugFree(pages[id].siteId, Get(data.slug), {id})

PutPageUpdate(p) ==
    /\ req[p].pc = "updatePage.update"
    /\ LET r == req[p]
           updateData == StampPublishedAt(r.data, Get(r.existing), now)
       IN  IF PageUpdateFails(r.id, updateData)
           THEN /\ Answer(p, InternalError("Failed to update page"))
                /\ UNCHANGED pages
           ELSE /\ pages' = [pages EXCEPT ![r.id] = ApplyPageData(@, updateData)]
                /\ Answer(p, PageResp(200, "Page updated successfully", {r.id}, pages'))
    /\ UNCHANGED <<tenants, users, sites, media, nextId, now>>

(* ----------------------- PATCH /pages/:id/publish --------------------- *)
PatchPagePublish(u, id, body) ==
    LET route == "PATCH /pages/:id/publish"
        user == authenticate(u)
        data == PublishPageSchema(body)
        found == FindPage(id, Get(user).tenantId)
        existingPage == pages[id]
    IN  IF ~IsSome(user) THEN Reply(Unauthenticated)
        ELSE IF ~requireRole(EditorRoles, Get(user))
        THEN Reply(RoleDenied(EditorRoles, Get(user)))
        ELSE IF ~IsSome(data) THEN Reply(ValidationError)
        ELSE IF ~IsSome(found) THEN Reply(PageNotFound)
        ELSE IF ~OwnsPage(Get(user), existingPage)
        THEN Reply(NotOwner("You can only modify your own pages"))
        ELSE Continue(
                 At("publishPage.update", route, u, id, Get(data), Some(PageColumns(existingPage))))
PatchPagePublishStart(p, u, id, body) ==
    /\ Free(p)
    /\ Start(p, PatchPagePublish(u, id, body))

PatchPagePublishUpdate(p) ==
    /\ req[p].pc = "publishPage.update"
    /\ LET r == req[p]
           updateData == StampPublishedAt(r.data, Get(r.existing), now)
       IN  IF PageUpdateFails(r.id, updateData)
           THEN /\ Answer(p, InternalError("Failed to update page status"))
                /\ UNCHANGED pages
           ELSE /\ pages' = [pages EXCEPT ![r.id] = ApplyPageData(@, updateData)]
                /\ Answer(p, [Ok(200, "Page status changed successfully") EXCEPT !.pages = {r.id}])
    /\ UNCHANGED <<tenants, users, sites, media, nextId, now>>

(* --------------------------- DELETE /pages/:id ------------------------ *)
DeletePage(u, id) ==
    LET route == "DELETE /pages/:id"
        user == authenticate(u)
        found == FindPage(id, Get(user).tenantId)
    IN  IF ~IsSome(user) THEN Reply(Unauthenticated)
        ELSE IF ~requireRole(EditorRoles, Get(user))
        THEN Reply(RoleDenied(EditorRoles, Get(user)))
        ELSE IF ~IsSome(found) THEN Reply(PageNotFound)
        ELSE IF ~OwnsPage(Get(user), pages[id])
        THEN Reply(NotOwner("You can only delete your own pages"))
        ELSE Continue(
                 At("deletePage.delete", route, u, id, NoData, None))
DeletePageStart(p, u, id) ==
    /\ Free(p)
    /\ Start(p, DeletePage(u, id))

(* db.page.delete({ where: { id } }) throws when the row is gone.          *)
DeletePageDelete(p) ==
    /\ req[p].pc = "deletePage.delete"
    /\ LET r == req[p] IN
       IF r.id \notin DOMAIN pages
       THEN /\ Answer(p, InternalError("Failed to delete page"))
            /\ UNCHANGED pages
       ELSE /\ pages' = Remove(pages, {r.id})
            /\ Answer(p, Ok(200, "Page deleted successfully"))
    /\ UNCHANGED <<tenants, users, sites, media, nextId, now>>

(* ------------------------------ GET /pages ---------------------------- *)
(* A mutant: the list's where clause without site.tenantId.                *)
PagesWhere_NoTenant(tenantId, query) ==
    {i \in DOMAIN pages :
        /\ (IsSome(query.siteId) => pages[i].siteId = Get(query.siteId))
        /\ (IsSome(query.status) => pages[i].status = Get(query.status))
        /\ (IsSome(query.search) => i \in Get(query.search))}

(* whereClause: site.tenantId, and siteId, status, search when given.  A   *)
(* search string is given as the set of pages whose title or excerpt       *)
(* contains it.                                                            *)
PagesWhere(tenantId, query) ==
    {i \in DOMAIN pages :
        /\ sites[pages[i].siteId].tenantId = tenantId
        /\ (IsSome(query.siteId) => pages[i].siteId = Get(query.siteId))
        /\ (IsSome(query.status) => pages[i].status = Get(query.status))
        /\ (IsSome(query.search) => i \in Get(query.search))}

GetPagesResponse(u, query) ==
    LET route == "GET /pages"
        user == authenticate(u)
    IN  IF ~IsSome(user) THEN Reply(Unauthenticated)
        ELSE Reply(PageResp(200, "", PagesWhere(Get(user).tenantId, query), pages))
GetPages(p, u, query) ==
    /\ Free(p)
    /\ Start(p, GetPagesResponse(u, query))

(* ---------------------------- GET /pages/:id -------------------------- *)
GetPageResponse(u, id) ==
    LET route == "GET /pages/:id"
        user == authenticate(u)
    IN  IF ~IsSome(user) THEN Reply(Unauthenticated)
        ELSE IF ~IsSome(FindPage(id, Get(user).tenantId))
        THEN Reply(PageNotFound)
        ELSE Reply(PageResp(200, "", {id}, pages))
GetPage(p, u, id) ==
    /\ Free(p)
    /\ Start(p, GetPageResponse(u, id))

(* ----------------------------- GET /auth/me --------------------------- *)
(* Answers req.user and req.tenant as authenticate built them.             *)
GetMeResponse(u) ==
    LET user == authenticate(u)
    IN  IF ~IsSome(user) THEN Reply(Unauthenticated)
        ELSE Reply([Ok(200, "") EXCEPT !.users = {Get(user).id},
                                       !.tenants = {Get(user).tenantId}])
GetMe(p, u) ==
    /\ Free(p)
    /\ Start(p, GetMeResponse(u))

(* -------------------------------- clock ------------------------------- *)
(* new Date() reads the clock, which only moves forward.                    *)
Tick ==
    /\ now < MaxTime
    /\ now' = now + 1
    /\ UNCHANGED <<dbVars, req, out>>

(* ================================ sites =============================== *)
SiteNotFound ==
    Resp(404, "Site not found",
         "The requested site does not exist or you don't have access to it")
DomainTaken ==
    Resp(400, "Domain already taken", "A site with this domain already exists")

(* A string is truthy when it is not empty.                                *)
Truthy(o) == IsSome(o) /\ Get(o) # ""

CreateSiteSchema(body) ==
    IF IsSome(body.name) /\ Get(body.name) # ""
    THEN Some([NoData EXCEPT !.domain = body.domain])
    ELSE None
UpdateSiteSchema(body) ==
    IF OptNonEmpty(body.name)
    THEN Some([NoData EXCEPT !.domain = body.domain])
    ELSE None
PublishSiteSchema(body) ==
    IF IsSome(body.isPublished) /\ IsBool(Get(body.isPublished))
    THEN Some([NoData EXCEPT !.isPublished = body.isPublished])
    ELSE None

(* A mutant: the delete of a site does not cascade to its pages.           *)
PagesOfSites_NoCascade(ids) == {}
PagesOfSites(ids) == {i \in DOMAIN pages : pages[i].siteId \in ids}
MediaOfSites(ids) == {i \in DOMAIN media : media[i].siteId \in ids}

(* db.site.findUnique({ where: { domain } })                               *)
SiteWithDomain(domain) ==
    \E i \in DOMAIN sites : sites[i].domain = Some(domain)
(* The unique index on Site.domain (null is not compared).                 *)
SiteDomainFree(domain, self) ==
    IsSome(domain) => \A i \in DOMAIN sites \ self : sites[i].domain # domain

(* GET /sites: the tenant's sites, each with its pages (select).           *)
GetSitesResponse(u) ==
    LET route == "GET /sites"
        user == authenticate(u)
        ids == {i \in DOMAIN sites : sites[i].tenantId = Get(user).tenantId}
    IN  IF ~IsSome(user) THEN Reply(Unauthenticated)
        ELSE Reply([Ok(200, "") EXCEPT !.sites = ids, !.pages = PagesOfSites(ids)])
GetSites(p, u) ==
    /\ Free(p)
    /\ Start(p, GetSitesResponse(u))

(* GET /sites/:id: the site with its pages, their authors, and its media.  *)
GetSiteResponse(u, id) ==
    LET route == "GET /sites/:id"
        user == authenticate(u)
    IN  IF ~IsSome(user) THEN Reply(Unauthenticated)
        ELSE IF ~IsSome(FindSite(id, Get(user).tenantId))
        THEN Reply(SiteNotFound)
        ELSE Reply([Ok(200, "") EXCEPT
                     !.sites = {id},
                     !.pages = PagesOfSites({id}),
                     !.users = {pages[i].authorId : i \in PagesOfSites({id})},
                     !.media = MediaOfSites({id})])
GetSite(p, u, id) ==
    /\ Free(p)
    /\ Start(p, GetSiteResponse(u, id))

(* ------------------------------ POST /sites --------------------------- *)
PostSites(u, body) ==
    LET route == "POST /sites"
        user == authenticate(u)
        data == CreateSiteSchema(body)
    IN  IF ~IsSome(user) THEN Reply(Unauthenticated)
        ELSE IF ~requireRole(AdminRoles, Get(user))
        THEN Reply(RoleDenied(AdminRoles, Get(user)))
        ELSE IF ~IsSome(data) THEN Reply(ValidationError)
        ELSE IF Truthy(Get(data).domain) /\ SiteWithDomain(Get(Get(data).domain))
        THEN Reply(DomainTaken)
        ELSE Continue(
                 At("createSite.create", route, u, 0, Get(data), None))
PostSitesStart(p, u, body) ==
    /\ Free(p)
    /\ nextId.site + InFlight("POST /sites") <= MaxSiteId
    /\ Start(p, PostSites(u, body))

PostSitesCreate(p) ==
    /\ req[p].pc = "createSite.create"
    /\ LET r == req[p]
           id == nextId.site
           row == [tenantId |-> users[r.uid].tenantId, domain |-> r.data.domain,
                   isPublished |-> FALSE]
       IN  IF ~SiteDomainFree(row.domain, {}) \/ row.tenantId \notin DOMAIN tenants
           THEN /\ Answer(p, InternalError("Failed to create site"))
                /\ UNCHANGED <<sites, nextId>>
           ELSE /\ sites' = (id :> row) @@ sites
                /\ nextId' = [nextId EXCEPT !.site = @ + 1]
                /\ Answer(p, 
                      [Ok(201, "Site created successfully") EXCEPT !.sites = {id}])
    /\ UNCHANGED <<tenants, users, pages, media, now>>

(* ---------------------------- PUT /sites/:id -------------------------- *)
(* A mutant: the handler reads the site before it parses the body.         *)
PutSite_FindsFirst(u, id, body) ==
    LET route == "PUT /sites/:id"
        user == authenticate(u)
        data == UpdateSiteSchema(body)
        existingSite == sites[id]
    IN  IF ~IsSome(user) THEN Reply(Unauthenticated)
        ELSE IF ~requireRole(AdminRoles, Get(user))
        THEN Reply(RoleDenied(AdminRoles, Get(user)))
        ELSE IF ~IsSome(FindSite(id, Get(user).tenantId))
        THEN Reply(SiteNotFound)
        ELSE IF ~IsSome(data) THEN Reply(ValidationError)
        ELSE Continue(
                 At(IF Truthy(Get(data).domain) /\ Get(data).domain # existingSite.domain
                    THEN "updateSite.findUnique" ELSE "updateSite.update",
                    route, u, id, Get(data), None))

PutSite(u, id, body) ==
    LET route == "PUT /sites/:id"
        user == authenticate(u)
        data == UpdateSiteSchema(body)
        existingSite == sites[id]
    IN  IF ~IsSome(user) THEN Reply(Unauthenticated)
        ELSE IF ~requireRole(AdminRoles, Get(user))
        THEN Reply(RoleDenied(AdminRoles, Get(user)))
        ELSE IF ~IsSome(data) THEN Reply(ValidationError)
        ELSE IF ~IsSome(FindSite(id, Get(user).tenantId))
        THEN Reply(SiteNotFound)
        ELSE Continue(
                 At(IF Truthy(Get(data).domain) /\ Get(data).domain # existingSite.domain
                    THEN "updateSite.findUnique" ELSE "updateSite.update",
                    route, u, id, Get(data), None))
PutSiteStart(p, u, id, body) ==
    /\ Free(p)
    /\ Start(p, PutSite(u, id, body))

PutSiteDomainCheck(p) ==
    /\ req[p].pc = "updateSite.findUnique"
    /\ LET r == req[p] IN
       IF SiteWithDomain(Get(r.data.domain))
       THEN Answer(p, DomainTaken)
       ELSE Goto(p, "updateSite.update")
    /\ UNCHANGED <<dbVars, now>>

(* db.site.update({ where: { id }, data })                                 *)
ApplySiteData(row, data) ==
    [row EXCEPT !.domain = IF IsSome(data.domain) THEN data.domain ELSE @,
                !.isPublished = Put(@, data.isPublished),
                !.tenantId = Put(@, data.tenantId)]
SiteUpdateFails(id, data) ==
    \/ id \notin DOMAIN sites
    \/ ~SiteDomainFree(data.domain, {id})

PutSiteUpdate(p) ==
    /\ req[p].pc = "updateSite.update"
    /\ LET r == req[p] IN
       IF SiteUpdateFails(r.id, r.data)
       THEN /\ Answer(p, InternalError("Failed to update site"))
            /\ UNCHANGED sites
       ELSE /\ sites' = [sites EXCEPT ![r.id] = ApplySiteData(@, r.data)]
            /\ Answer(p, [Ok(200, "Site updated successfully") EXCEPT !.sites = {r.id}])
    /\ UNCHANGED <<tenants, users, pages, media, nextId, now>>

(* ------------------------ PATCH /sites/:id/publish -------------------- *)
PatchSitePublish(u, id, body) ==
    LET route == "PATCH /sites/:id/publish"
        user == authenticate(u)
        data == PublishSiteSchema(body)
    IN  IF ~IsSome(user) THEN Reply(Unauthenticated)
        ELSE IF ~requireRole(AdminRoles, Get(user))
        THEN Reply(RoleDenied(AdminRoles, Get(user)))
        ELSE IF ~IsSome(data) THEN Reply(ValidationError)
        ELSE IF ~IsSome(FindSite(id, Get(user).tenantId))
        THEN Reply(SiteNotFound)
        ELSE Continue(
                 At("publishSite.update", route, u, id, Get(data), None))
PatchSitePublishStart(p, u, id, body) ==
    /\ Free(p)
    /\ Start(p, PatchSitePublish(u, id, body))

(* A mutant: publishing a site publishes its pages with it.                *)
PatchSitePublishUpdate_PublishesPages(p) ==
    /\ req[p].pc = "publishSite.update"
    /\ LET r == req[p] IN
       IF r.id \notin DOMAIN sites
       THEN /\ Answer(p, InternalError("Failed to publish site"))
            /\ UNCHANGED <<sites, pages>>
       ELSE /\ sites' = [sites EXCEPT ![r.id] = ApplySiteData(@, r.data)]
            /\ pages' = [i \in DOMAIN pages |->
                            IF pages[i].siteId = r.id /\ r.data.isPublished = Some(TRUE)
                            THEN [pages[i] EXCEPT !.status = "PUBLISHED"]
                            ELSE pages[i]]
            /\ Answer(p, [Ok(200, "Site published or unpublished successfully")
                      EXCEPT !.sites = {r.id}])
    /\ UNCHANGED <<tenants, users, media, nextId, now>>

PatchSitePublishUpdate(p) ==
    /\ req[p].pc = "publishSite.update"
    /\ LET r == req[p] IN
       IF r.id \notin DOMAIN sites
       THEN /\ Answer(p, InternalError("Failed to publish site"))
            /\ UNCHANGED sites
       ELSE /\ sites' = [sites EXCEPT ![r.id] = ApplySiteData(@, r.data)]
            /\ Answer(p, [Ok(200, "Site published or unpublished successfully")
                      EXCEPT !.sites = {r.id}])
    /\ UNCHANGED <<tenants, users, pages, media, nextId, now>>

(* --------------------------- DELETE /sites/:id ------------------------ *)
DeleteSite(u, id) ==
    LET route == "DELETE /sites/:id"
        user == authenticate(u)
    IN  IF ~IsSome(user) THEN Reply(Unauthenticated)
        ELSE IF ~requireRole(AdminRoles, Get(user))
        THEN Reply(RoleDenied(AdminRoles, Get(user)))
        ELSE IF ~IsSome(FindSite(id, Get(user).tenantId))
        THEN Reply(SiteNotFound)
        ELSE Continue(
                 At("deleteSite.delete", route, u, id, NoData, None))
DeleteSiteStart(p, u, id) ==
    /\ Free(p)
    /\ Start(p, DeleteSite(u, id))

(* db.site.delete({ where: { id } }): the cascade removes the site's pages *)
(* and media with it.                                                      *)
DeleteSiteDelete(p) ==
    /\ req[p].pc = "deleteSite.delete"
    /\ LET r == req[p] IN
       IF r.id \notin DOMAIN sites
       THEN /\ Answer(p, InternalError("Failed to delete site"))
            /\ UNCHANGED <<sites, pages, media>>
       ELSE /\ sites' = Remove(sites, {r.id})
            /\ pages' = Remove(pages, PagesOfSites({r.id}))
            /\ media' = Remove(media, MediaOfSites({r.id}))
            /\ Answer(p, Ok(200, "Site deleted successfully"))
    /\ UNCHANGED <<tenants, users, nextId, now>>

(* ================================ media =============================== *)
MediaNotFound ==
    Resp(404, "Media not found",
         "The requested media file does not exist or you don't have access to it")
FilenameExists ==
    Resp(400, "Filename already exists",
         "A media file with this filename already exists in this site")

CreateMediaSchema(body) ==
    IF /\ IsSome(body.siteId)
       /\ IsSome(body.filename) /\ Get(body.filename) # ""
       /\ IsSome(body.mimeType) /\ Get(body.mimeType) # ""
    THEN Some([NoData EXCEPT !.siteId = body.siteId, !.filename = body.filename,
                             !.mimeType = body.mimeType])
    ELSE None
(* A mutant: the update schema of media lets the siteId key through.       *)
UpdateMediaSchema_KeepsSiteId(body) ==
    IF OptString(body.filename)
    THEN Some([NoData EXCEPT !.filename = body.filename, !.siteId = body.siteId])
    ELSE None

(* filename: z.string().optional(): every string passes, the empty one    *)
(* too; a filename that is no string fails.                                *)
UpdateMediaSchema(body) ==
    IF OptString(body.filename)
    THEN Some([NoData EXCEPT !.filename = body.filename])
    ELSE None

MediaResp(status, message, ids, table) ==
    [Ok(status, message) EXCEPT
        !.media = ids, !.sites = {table[i].siteId : i \in ids}]

(* The type filter of GET /media on mimeType.                              *)
TypeMatches(type, mimeType) ==
    CASE type = "images" -> mimeType \in ImageMimeTypes
      [] type = "documents" -> mimeType \in DocumentMimeTypes
      [] type = "videos" -> mimeType \in VideoMimeTypes
      [] OTHER -> TRUE

MediaWhere(tenantId, query) ==
    {i \in DOMAIN media :
        /\ sites[media[i].siteId].tenantId = tenantId
        /\ (IsSome(query.siteId) => media[i].siteId = Get(query.siteId))
        /\ (IsSome(query.type) => TypeMatches(Get(query.type), media[i].mimeType))
        /\ (IsSome(query.search) => i \in Get(query.search))}

GetMediaResponse(u, query) ==
    LET route == "GET /media"
        user == authenticate(u)
    IN  IF ~IsSome(user) THEN Reply(Unauthenticated)
        ELSE Reply(MediaResp(200, "", MediaWhere(Get(user).tenantId, query), media))
GetMedia(p, u, query) ==
    /\ Free(p)
    /\ Start(p, GetMediaResponse(u, query))

GetMediaByIdResponse(u, id) ==
    LET route == "GET /media/:id"
        user == authenticate(u)
    IN  IF ~IsSome(user) THEN Reply(Unauthenticated)
        ELSE IF ~IsSome(FindMedia(id, Get(user).tenantId))
        THEN Reply(MediaNotFound)
        ELSE Reply(MediaResp(200, "", {id}, media))
GetMediaById(p, u, id) ==
    /\ Free(p)
    /\ Start(p, GetMediaByIdResponse(u, id))

(* db.media.findFirst({ where: { siteId, filename } })                     *)
MediaWithFilename(siteId, filename) ==
    \E i \in DOMAIN media : media[i].siteId = siteId /\ media[i].filename = filename

(* A mutant: the media table has no unique index on (siteId, filename).   *)
MediaFilenameFree_NoIndex(siteId, filename, self) == TRUE

(* The unique index on Media (siteId, filename): the persisted layout      *)
(* carries a unique constraint on Media.filename per Site.                 *)
MediaFilenameFree(siteId, filename, self) ==
    \A i \in DOMAIN media \ self :
        ~(media[i].siteId = siteId /\ media[i].filename = filename)

(* ------------------------------ POST /media --------------------------- *)
PostMedia(u, body) ==
    LET route == "POST /media"
        user == authenticate(u)
        data == CreateMediaSchema(body)
    IN  IF ~IsSome(user) THEN Reply(Unauthenticated)
        ELSE IF ~requireRole(EditorRoles, Get(user))
        THEN Reply(RoleDenied(EditorRoles, Get(user)))
        ELSE IF ~IsSome(data) THEN Reply(ValidationError)
        ELSE IF ~IsSome(FindSite(Get(Get(data).siteId), Get(user).tenantId))
        THEN Reply(Resp(404, "Site not found",
                 "The specified site does not exist or you don't have access to it"))
        ELSE Continue(
                 At("createMedia.findFirst", route, u, 0, Get(data), None))
PostMediaStart(p, u, body) ==
    /\ Free(p)
    /\ nextId.media + InFlight("POST /media") <= MaxMediaId
    /\ Start(p, PostMedia(u, body))

PostMediaFilenameCheck(p) ==
    /\ req[p].pc = "createMedia.findFirst"
    /\ LET r == req[p] IN
       IF MediaWithFilename(Get(r.data.siteId), Get(r.data.filename))
       THEN Answer(p, FilenameExists)
       ELSE Goto(p, "createMedia.create")
    /\ UNCHANGED <<dbVars, now>>

PostMediaCreate(p) ==
    /\ req[p].pc = "createMedia.create"
    /\ LET r == req[p]
           id == nextId.media
           row == [siteId |-> Get(r.data.siteId), filename |-> Get(r.data.filename),
                   mimeType |-> Get(r.data.mimeType)]
       IN  IF \/ row.siteId \notin DOMAIN sites
              \/ ~MediaFilenameFree(row.siteId, row.filename, {})
           THEN /\ Answer(p, InternalError("Failed to upload media"))
                /\ UNCHANGED <<media, nextId>>
           ELSE /\ media' = (id :> row) @@ media
                /\ nextId' = [nextId EXCEPT !.media = @ + 1]
                /\ Answer(p, 
                      MediaResp(201, "Media uploaded successfully", {id}, media'))
    /\ UNCHANGED <<tenants, users, sites, pages, now>>

(* ---------------------------- PUT /media/:id -------------------------- *)
PutMedia(u, id, body) ==
    LET route == "PUT /media/:id"
        user == authenticate(u)
        data == UpdateMediaSchema(body)
        existingMedia == media[id]
    IN  IF ~IsSome(user) THEN Reply(Unauthenticated)
        ELSE IF ~requireRole(EditorRoles, Get(user))
        THEN Reply(RoleDenied(EditorRoles, Get(user)))
        ELSE IF ~IsSome(data) THEN Reply(ValidationError)
        ELSE IF ~IsSome(FindMedia(id, Get(user).tenantId))
        THEN Reply(MediaNotFound)
        ELSE Continue(
                 At(IF Truthy(Get(data).filename)
                       /\ Get(Get(data).filename) # existingMedia.filename
                    THEN "updateMedia.findFirst" ELSE "updateMedia.update",
                    route, u, id, Get(data), Some(MediaColumns(existingMedia))))
PutMediaStart(p, u, id, body) ==
    /\ Free(p)
    /\ Start(p, PutMedia(u, id, body))

PutMediaFilenameCheck(p) ==
    /\ req[p].pc = "updateMedia.findFirst"
    /\ LET r == req[p] IN
       IF MediaWithFilename(Get(r.existing).siteId, Get(r.data.filename))
       THEN Answer(p, FilenameExists)
       ELSE Goto(p, "updateMedia.update")
    /\ UNCHANGED <<dbVars, now>>

ApplyMediaData(row, data) ==
    [row EXCEPT !.filename = Put(@, data.filename),
                !.siteId = Put(@, data.siteId)]
(* db.media.update throws when the row is gone or the unique index holds   *)
(* the new filename for another row of the Site.                           *)
MediaUpdateFails(id, data) ==
    \/ id \notin DOMAIN media
    \/ /\ IsSome(data.filename)
       /\ ~MediaFilenameFree(media[id].siteId, Get(data.filename), {id})

PutMediaUpdate(p) ==
    /\ req[p].pc = "updateMedia.update"
    /\ LET r == req[p] IN
       IF MediaUpdateFails(r.id, r.data)
       THEN /\ Answer(p, InternalError("Failed to update media"))
            /\ UNCHANGED media
       ELSE /\ media' = [media EXCEPT ![r.id] = ApplyMediaData(@, r.data)]
            /\ Answer(p, MediaResp(200, "Media updated successfully", {r.id}, media'))
    /\ UNCHANGED <<tenants, users, sites, pages, nextId, now>>

(* --------------------------- DELETE /media/:id ------------------------ *)
DeleteMedia(u, id) ==
    LET route == "DELETE /media/:id"
        user == authenticate(u)
    IN  IF ~IsSome(user) THEN Reply(Unauthenticated)
        ELSE IF ~requireRole(EditorRoles, Get(user))
        THEN Reply(RoleDenied(EditorRoles, Get(user)))
        ELSE IF ~IsSome(FindMedia(id, Get(user).tenantId))
        THEN Reply(MediaNotFound)
        ELSE Continue(
                 At("deleteMedia.delete", route, u, id, NoData, None))
DeleteMediaStart(p, u, id) ==
    /\ Free(p)
    /\ Start(p, DeleteMedia(u, id))

DeleteMediaDelete(p) ==
    /\ req[p].pc = "deleteMedia.delete"
    /\ LET r == req[p] IN
       IF r.id \notin DOMAIN media
       THEN /\ Answer(p, InternalError("Failed to delete media"))
            /\ UNCHANGED media
       ELSE /\ media' = Remove(media, {r.id})
            /\ Answer(p, Ok(200, "Media deleted successfully"))
    /\ UNCHANGED <<tenants, users, sites, pages, nextId, now>>

(* ================================= auth =============================== *)
(* The tokens jwt.sign makes: a signature made with JWT_SECRET, the issue  *)
(* time, the expiry (issue time + expiresIn, in days) and the payload's    *)
(* claims.                                                                 *)
AccessDays == 1
RefreshDays == 7
NoClaims ==
    [userId |-> None, email |-> None, role |-> None, tenantId |-> None,
     type |-> None]
generateToken(user, time) ==
    [sig |-> "JWT_SECRET", iat |-> time, exp |-> time + AccessDays,
     payload |-> [NoClaims EXCEPT !.userId = Some(user.id),
                                  !.email = Some(user.email),
                                  !.role = Some(user.role),
                                  !.tenantId = Some(user.tenantId)]]
generateRefreshToken(user, time) ==
    [sig |-> "JWT_SECRET", iat |-> time, exp |-> time + RefreshDays,
     payload |-> [NoClaims EXCEPT !.userId = Some(user.id),
                                  !.type = Some("refresh")]]
TokensFor(id, row, time) ==
    {generateToken([id |-> id, email |-> row.email, role |-> row.role,
                    tenantId |-> row.tenantId], time),
     generateRefreshToken([id |-> id], time)}

(* jwt.verify(token, JWT_SECRET): the error it throws, or "ok".            *)
(* TokenExpiredError is a JsonWebTokenError.                               *)
verify(token, time) ==
    IF token.sig # "JWT_SECRET" THEN "JsonWebTokenError"
    ELSE IF time >= token.exp THEN "TokenExpiredError"
    ELSE "ok"

(* A mutant: the identity schema asks for the userId only.                 *)
JWTPayloadSchema_UserIdOnly(decoded) ==
    IF IsSome(decoded.userId)
    THEN Some([userId |-> Get(decoded.userId)])
    ELSE None

(* JWTPayloadSchema.parse(decoded): userId, email (an email), role and     *)
(* tenantId must all be there; other claims are stripped.                  *)
JWTPayloadSchema(decoded) ==
    IF /\ IsSome(decoded.userId)
       /\ IsSome(decoded.email) /\ IsEmail(Get(decoded.email))
       /\ IsSome(decoded.role)
       /\ IsSome(decoded.tenantId)
    THEN Some([userId |-> Get(decoded.userId)])
    ELSE None

(* The Authorization header: absent, or a scheme and a token.              *)
Bearer(token) == Some([scheme |-> "Bearer", token |-> token])
AuthRequired ==
    Resp(401, "Authentication required", "Please provide a valid Bearer token")
TokenInvalid == Resp(401, "Invalid token", "JWT token is malformed or expired")
AuthenticationFailed ==
    Resp(500, "Authentication failed", "Internal server error during authentication")

(* AuthMiddleware.authenticate on the header: req.user when it calls       *)
(* next(), else the response it sends.  A ZodError of the payload parse is *)
(* no JsonWebTokenError and falls through to the 500 of the catch block.   *)
Rejected(resp) == [user |-> None, resp |-> resp]
authenticateHeader(header) ==
    IF ~IsSome(header) \/ Get(header).scheme # "Bearer"
    THEN Rejected(AuthRequired)
    ELSE LET token == Get(header).token
             payload == JWTPayloadSchema(token.payload)
         IN  IF verify(token, now) # "ok" THEN Rejected(TokenInvalid)
             ELSE IF ~IsSome(payload) THEN Rejected(AuthenticationFailed)
             ELSE IF ~IsSome(authenticate(Get(payload).userId))
             THEN Rejected(Unauthenticated)
             ELSE [user |-> authenticate(Get(payload).userId), resp |-> NoResp]

(* router.METHOD(path, AuthMiddleware.authenticate, ...handlers): the rest *)
(* of the chain (begin, the first step of the request of req.user) runs    *)
(* only when authenticate has called next().                               *)
CallerOf(header) == Get(authenticateHeader(header).user).id
Route(header, begin) ==
    IF IsSome(authenticateHeader(header).user)
    THEN begin
    ELSE Reply(authenticateHeader(header).resp)

(* A token is presented only once it has been issued.                      *)
Presentable(header) == IsSome(header) => Get(header).token.iat <= now

BearerGetMe(p, header) ==
    /\ Free(p)
    /\ Presentable(header)
    /\ Start(p, Route(header, GetMeResponse(CallerOf(header))))
BearerPostSitesStart(p, header, body) ==
    /\ Free(p)
    /\ Presentable(header)
    /\ nextId.site + InFlight("POST /sites") <= MaxSiteId
    /\ Start(p, Route(header, PostSites(CallerOf(header), body)))
BearerPostPagesStart(p, header, body) ==
    /\ Free(p)
    /\ Presentable(header)
    /\ nextId.page + InFlight("POST /pages") <= MaxPageId
    /\ Start(p, Route(header, PostPages(CallerOf(header), body)))

(* ---------------------------- POST /auth/register --------------------- *)
RegisterBody(email, password, tenantDomain) ==
    [email |-> email, password |-> password, firstName |-> Some("f"),
     lastName |-> Some("l"), tenantName |-> Some("n"),
     tenantDomain |-> tenantDomain]
RegisterSchema(body) ==
    IF /\ IsSome(body.email) /\ IsEmail(Get(body.email))
       /\ IsSome(body.password) /\ Len(Get(body.password)) >= 8
       /\ IsSome(body.firstName) /\ Get(body.firstName) # ""
       /\ IsSome(body.lastName) /\ Get(body.lastName) # ""
       /\ IsSome(body.tenantName) /\ Get(body.tenantName) # ""
       /\ IsSome(body.tenantDomain) /\ Get(body.tenantDomain) # ""
    THEN Some([NoData EXCEPT !.email = body.email, !.password = body.password,
                             !.domain = body.tenantDomain])
    ELSE None

(* A mutant: User.email has no unique index and the lookup finds nothing.  *)
UserWithEmail_NoIndex(email) == {}

(* db.user.findUnique({ where: { email } })                                *)
UserWithEmail(email) == {u \in DOMAIN users : users[u].email = email}
(* db.tenant.findUnique({ where: { domain } })                             *)
TenantWithDomain(domain) == {t \in DOMAIN tenants : tenants[t].domain = domain}

PostRegister(body) ==
    LET route == "POST /auth/register"
        data == RegisterSchema(body)
    IN  IF ~IsSome(data) THEN Reply(ValidationError)
        ELSE IF UserWithEmail(Get(Get(data).email)) # {}
        THEN Reply(Resp(400, "User already exists",
                        "An account with this email already exists"))
        ELSE Continue(At("register.findTenant", route, 0, 0, Get(data), None))
PostRegisterStart(p, body) ==
    /\ Free(p)
    /\ nextId.tenant + InFlight("POST /auth/register") <= MaxTenantId
    /\ Start(p, PostRegister(body))

PostRegisterFindTenant(p) ==
    /\ req[p].pc = "register.findTenant"
    /\ IF TenantWithDomain(Get(req[p].data.domain)) # {}
       THEN Answer(p, Resp(400, "Domain already taken",
                           "This domain is already registered"))
       ELSE Goto(p, "register.transaction")
    /\ UNCHANGED <<dbVars, now>>

(* A mutant: the tenant insert is kept when the user insert throws.        *)
Rollback_KeepsWrites(before, written) == written

(* db.$transaction(callback): when the callback throws, what it wrote is   *)
(* rolled back and the table is as it was before.                          *)
Rollback(before, written) == before

(* The transaction: tx.tenant.create, then tx.user.create as ADMIN of the  *)
(* new tenant (isActive takes the column's default).  Each insert throws   *)
(* when its unique index (Tenant.domain, User.email) holds the value       *)
(* already; the handler's catch block then answers 500.                    *)
PostRegisterTransaction(p) ==
    /\ req[p].pc = "register.transaction"
    /\ LET r == req[p]
           tid == nextId.tenant
           uid == nextId.user
           tenant == [domain |-> Get(r.data.domain)]
           user == [tenantId |-> tid, role |-> "ADMIN", isActive |-> TRUE,
                    email |-> Get(r.data.email),
                    password |-> bcryptHash(Get(r.data.password))]
           written == (tid :> tenant) @@ tenants
       IN  IF TenantWithDomain(tenant.domain) # {}
           THEN /\ Answer(p, InternalError("Registration failed"))
                /\ UNCHANGED <<tenants, users, nextId>>
           ELSE IF UserWithEmail(user.email) # {}
           THEN /\ tenants' = Rollback(tenants, written)
                /\ nextId' = [nextId EXCEPT
                                 !.tenant = IF tenants' = tenants THEN @ ELSE @ + 1]
                /\ Answer(p, InternalError("Registration failed"))
                /\ UNCHANGED users
           ELSE /\ tenants' = written
                /\ users' = (uid :> user) @@ users
                /\ nextId' = [nextId EXCEPT !.tenant = @ + 1, !.user = @ + 1]
                /\ Answer(p, [Ok(201, "Registration successful") EXCEPT
                                 !.users = {uid}, !.tenants = {tid},
                                 !.tokens = TokensFor(uid, user, now)])
    /\ UNCHANGED <<sites, pages, media, now>>

(* ------------------------------ POST /auth/login ---------------------- *)
LoginBody(email, password) == [email |-> email, password |-> password]
LoginSchema(body) ==
    IF /\ IsSome(body.email) /\ IsEmail(Get(body.email))
       /\ IsSome(body.password) /\ Len(Get(body.password)) >= 1
    THEN Some([NoData EXCEPT !.email = body.email, !.password = body.password])
    ELSE None
InvalidCredentials ==
    Resp(401, "Invalid credentials", "Email or password is incorrect")

(* A mutant: an email that no active user holds gets an answer of its own. *)
PostLogin_TellsUnknown(body) ==
    LET data == LoginSchema(body)
        found == {u \in UserWithEmail(Get(Get(data).email)) : users[u].isActive}
    IN  IF ~IsSome(data) THEN Reply(ValidationError)
        ELSE IF found = {} THEN Reply(Resp(404, "User not found", ""))
        ELSE LET id == CHOOSE u \in found : TRUE IN
             IF ~bcryptCompare(Get(Get(data).password), users[id].password)
             THEN Reply(InvalidCredentials)
             ELSE Reply([Ok(200, "Login successful") EXCEPT
                            !.users = {id}, !.tenants = {users[id].tenantId},
                            !.tokens = TokensFor(id, users[id], now)])

(* db.user.findUnique({ where: { email, isActive: true } }), then          *)
(* bcrypt.compare against the row's hash.                                  *)
PostLogin(body) ==
    LET data == LoginSchema(body)
        found == {u \in UserWithEmail(Get(Get(data).email)) : users[u].isActive}
    IN  IF ~IsSome(data) THEN Reply(ValidationError)
        ELSE IF found = {} THEN Reply(InvalidCredentials)
        ELSE LET id == CHOOSE u \in found : TRUE IN
             IF ~bcryptCompare(Get(Get(data).password), users[id].password)
             THEN Reply(InvalidCredentials)
             ELSE Reply([Ok(200, "Login successful") EXCEPT
                            !.users = {id}, !.tenants = {users[id].tenantId},
                            !.tokens = TokensFor(id, users[id], now)])
PostLoginStart(p, body) ==
    /\ Free(p)
    /\ Start(p, PostLogin(body))

(* ------------------------ collaborator failures ----------------------- *)
(* Every handler body is one try block; its catch answers 500 with the     *)
(* route's error string, whatever was thrown (a ZodError is answered 400   *)
(* at the parse).                                                          *)
CatchError(route) ==
    CASE route = "GET /pages" -> "Failed to fetch pages"
      [] route = "GET /pages/:id" -> "Failed to fetch page"
      [] route = "POST /pages" -> "Failed to create page"
      [] route = "PUT /pages/:id" -> "Failed to update page"
      [] route = "PATCH /pages/:id/publish" -> "Failed to update page status"
      [] route = "DELETE /pages/:id" -> "Failed to delete page"
      [] route = "GET /sites" -> "Failed to fetch sites"
      [] route = "GET /sites/:id" -> "Failed to fetch site"
      [] route = "POST /sites" -> "Failed to create site"
      [] route = "PUT /sites/:id" -> "Failed to update site"
      [] route = "PATCH /sites/:id/publish" -> "Failed to publish site"
      [] route = "DELETE /sites/:id" -> "Failed to delete site"
      [] route = "GET /media" -> "Failed to fetch media"
      [] route = "GET /media/:id" -> "Failed to fetch media"
      [] route = "POST /media" -> "Failed to upload media"
      [] route = "PUT /media/:id" -> "Failed to update media"
      [] route = "DELETE /media/:id" -> "Failed to delete media"
      [] route = "POST /auth/register" -> "Registration failed"
      [] route = "POST /auth/login" -> "Login failed"
DbRoutes ==
    {"GET /pages", "GET /pages/:id", "POST /pages", "PUT /pages/:id",
     "PATCH /pages/:id/publish", "DELETE /pages/:id",
     "GET /sites", "GET /sites/:id", "POST /sites", "PUT /sites/:id",
     "PATCH /sites/:id/publish", "DELETE /sites/:id",
     "GET /media", "GET /media/:id", "POST /media", "PUT /media/:id",
     "DELETE /media/:id", "POST /auth/register", "POST /auth/login"}

(* A mutant: the catch block logs the error and sends nothing.             *)
QueryThrows_NoAnswer(p) ==
    /\ ~Free(p)
    /\ req' = [req EXCEPT ![p].pc = "hung"]
    /\ UNCHANGED <<dbVars, now, out>>

(* The database call a suspended handler waits for throws (the connection  *)
(* is lost, the query times out): the catch block answers 500.             *)
QueryThrows(p) ==
    /\ ~Free(p)
    /\ Answer(p, InternalError(CatchError(req[p].route)))
    /\ UNCHANGED <<dbVars, now>>

(* The first database call of a handler throws.                            *)
FirstQueryThrows(p, route) ==
    /\ Free(p)
    /\ Start(p, Reply(InternalError(CatchError(route))))

(* db.user.findUnique of authenticate throws: its catch answers 500.       *)
AuthenticateThrows(p) ==
    /\ Free(p)
    /\ Start(p, Reply(AuthenticationFailed))

(* ============================ specifications ========================== *)
(* Request bodies as the client sends them (before the schema's parse).    *)
PageBody(siteId, slug, status, isHomePage, authorId, publishedAt) ==
    [siteId |-> siteId, slug |-> slug, status |-> status,
     isHomePage |-> isHomePage, authorId |-> authorId,
     publishedAt |-> publishedAt]

Opt(S) == {None} \cup {Some(v) : v \in S}

(* Spec: the home page of site 1 under concurrent page writes of tenant    *)
(* 1's two editors (two requests in flight).                               *)
HomeWriters == {1, 2}
HomeCreateBodies ==
    {PageBody(Some(1), Some(slug), None, home, None, None) :
        slug \in {SlugHome, SlugAbout}, home \in Opt({TRUE})}
HomeUpdateBodies ==
    {PageBody(None, None, None, Some(home), None, None) : home \in BOOLEAN}

Next ==
    \/ \E p \in Procs, u \in HomeWriters, body \in HomeCreateBodies :
          PostPagesStart(p, u, body)
    \/ \E p \in Procs, u \in HomeWriters, id \in PageIds, body \in HomeUpdateBodies :
          PutPageStart(p, u, id, body)
    \/ \E p \in Procs, u \in HomeWriters, id \in PageIds : DeletePageStart(p, u, id)
    \/ \E p \in Procs :
          \/ PostPagesSlugCheck(p) \/ PostPagesClearHome(p) \/ PostPagesCreate(p)
          \/ PutPageClearHome(p) \/ PutPageUpdate(p) \/ DeletePageDelete(p)

Spec == Init /\ [][Next]_vars

(* SpecOwner: the ownership rule.  Page writes of tenant 1's two editors,  *)
(* its admin and its super admin on site 1, changing slug and status, one  *)
(* request at a time (only slot 1 is used).                                *)
OwnerCallers == {1, 2, 3, 5}
OwnerCreateBodies ==
    {PageBody(Some(1), Some(slug), None, None, None, None) :
        slug \in {SlugHome, SlugAbout}}
OwnerUpdateBodies ==
    {PageBody(None, slug, status, None, None, None) :
        slug \in Opt({SlugHome, SlugUpper}), status \in Opt({"ARCHIVED"})}
OwnerPublishBodies ==
    {PageBody(None, None, status, None, None, None) : status \in Opt({"ARCHIVED"})}

NextOwner ==
    \/ \E u \in OwnerCallers, body \in OwnerCreateBodies : PostPagesStart(1, u, body)
    \/ \E u \in OwnerCallers, id \in PageIds, body \in OwnerUpdateBodies :
          PutPageStart(1, u, id, body)
    \/ \E u \in OwnerCallers, id \in PageIds, body \in OwnerPublishBodies :
          PatchPagePublishStart(1, u, id, body)
    \/ \E u \in OwnerCallers, id \in PageIds : DeletePageStart(1, u, id)
    \/ PostPagesSlugCheck(1) \/ PostPagesCreate(1)
    \/ PutPageSlugCheck(1) \/ PutPageUpdate(1)
    \/ PatchPagePublishUpdate(1) \/ DeletePageDelete(1)

SpecOwner == Init /\ [][NextOwner]_vars

(* SpecPublish: the publishedAt stamp.  Tenant 1's editor and admin create *)
(* pages on site 1 and change their status by PUT and PATCH while the      *)
(* clock advances, one request at a time (only slot 1 is used).  PUT       *)
(* bodies may carry a publishedAt key (null), which the schema strips.     *)
PublishCallers == {1, 3}
PublishCreateBodies ==
    {PageBody(Some(1), Some(slug), status, None, None, None) :
        slug \in {SlugHome, SlugAbout}, status \in Opt({"PUBLISHED"})}
PublishUpdateBodies ==
    {PageBody(None, None, status, None, None, publishedAt) :
        status \in Opt(Statuses), publishedAt \in {None, Some(None)}}
PublishBodies ==
    {PageBody(None, None, Some(status), None, None, None) : status \in Statuses}

NextPublish ==
    \/ \E u \in PublishCallers, body \in PublishCreateBodies : PostPagesStart(1, u, body)
    \/ \E u \in PublishCallers, id \in PageIds, body \in PublishUpdateBodies :
          PutPageStart(1, u, id, body)
    \/ \E u \in PublishCallers, id \in PageIds, body \in PublishBodies :
          PatchPagePublishStart(1, u, id, body)
    \/ PostPagesSlugCheck(1) \/ PostPagesCreate(1)
    \/ PutPageUpdate(1) \/ PatchPagePublishUpdate(1)
    \/ Tick

SpecPublish == Init /\ [][NextPublish]_vars

(* SpecTenant: tenant isolation of the writes.  Slot 1 carries the         *)
(* requests of tenant 1's admin, who creates, updates, publishes and       *)
(* deletes sites, pages and media, addressing tenant 1's and tenant 2's    *)
(* ids; slot 2 carries those of tenant 2's admin, who creates a home page  *)
(* and a media file; the two interleave.  Updates carry no new slug,       *)
(* domain or filename.                                                     *)
SiteBody(name, domain, isPublished) ==
    [name |-> name, domain |-> domain, isPublished |-> isPublished]
MediaBody(siteId, filename, mimeType) ==
    [siteId |-> siteId, filename |-> filename, mimeType |-> mimeType]

TenantCaller == [p \in Procs |-> IF p = 1 THEN 3 ELSE 6]
TenantSites == {1, 3}
TenantSiteIds == {1, 3, 4}
TenantPageCreateBodies ==
    {PageBody(Some(s), Some(SlugHome), None, Some(TRUE), None, None) : s \in TenantSites}
TenantPageUpdateBodies ==
    {PageBody(None, None, None, Some(TRUE), None, None)}
TenantPagePublishBodies ==
    {PageBody(None, None, Some("PUBLISHED"), None, None, None)}
TenantSiteCreateBodies == {SiteBody(Some("n"), None, None)}
TenantSiteUpdateBodies == {SiteBody(Some("n"), None, None)}
TenantSitePublishBodies == {SiteBody(None, None, Some(TRUE))}
TenantMediaCreateBodies ==
    {MediaBody(Some(s), Some("f"), Some("image/png")) : s \in TenantSites}
TenantMediaUpdateBodies == {MediaBody(None, None, None)}

NextTenant ==
    \/ \E p \in Procs :
          \/ \E body \in TenantPageCreateBodies :
                PostPagesStart(p, TenantCaller[p], body)
          \/ \E body \in TenantMediaCreateBodies :
                PostMediaStart(p, TenantCaller[p], body)
          \/ PostPagesSlugCheck(p) \/ PostPagesClearHome(p) \/ PostPagesCreate(p)
          \/ PostMediaFilenameCheck(p) \/ PostMediaCreate(p)
    \/ \E id \in PageIds, body \in TenantPageUpdateBodies :
          PutPageStart(1, TenantCaller[1], id, body)
    \/ \E id \in PageIds, body \in TenantPagePublishBodies :
          PatchPagePublishStart(1, TenantCaller[1], id, body)
    \/ \E id \in PageIds : DeletePageStart(1, TenantCaller[1], id)
    \/ \E body \in TenantSiteCreateBodies : PostSitesStart(1, TenantCaller[1], body)
    \/ \E id \in TenantSiteIds, body \in TenantSiteUpdateBodies :
          PutSiteStart(1, TenantCaller[1], id, body)
    \/ \E id \in TenantSiteIds, body \in TenantSitePublishBodies :
          PatchSitePublishStart(1, TenantCaller[1], id, body)
    \/ \E id \in TenantSiteIds : DeleteSiteStart(1, TenantCaller[1], id)
    \/ \E id \in MediaIds, body \in TenantMediaUpdateBodies :
          PutMediaStart(1, TenantCaller[1], id, body)
    \/ \E id \in MediaIds : DeleteMediaStart(1, TenantCaller[1], id)
    \/ PutPageClearHome(1) \/ PutPageUpdate(1)
    \/ PatchPagePublishUpdate(1) \/ DeletePageDelete(1)
    \/ PostSitesCreate(1) \/ PutSiteUpdate(1)
    \/ PatchSitePublishUpdate(1) \/ DeleteSiteDelete(1)
    \/ PutMediaUpdate(1) \/ DeleteMediaDelete(1)

SpecTenant == Init /\ [][NextTenant]_vars

(* SpecRead: the reads.  The admins of the two tenants create pages and    *)
(* media on their sites; tenant 1's viewer and tenant 2's admin read       *)
(* lists and rows by id, with and without filters; one request at a time.  *)
ReadWriters == {3, 6}
ReadCallers == {4, 6}
ReadPageCreateBodies ==
    {PageBody(Some(s), Some(SlugHome), status, None, None, None) :
        s \in TenantSites, status \in Opt({"PUBLISHED"})}
ReadQueries ==
    {[siteId |-> siteId, status |-> status, type |-> type, search |-> search] :
        siteId \in Opt({3}), status \in Opt({"DRAFT"}),
        type \in Opt({"images"}), search \in Opt({{1}})}

NextRead ==
    \/ \E u \in ReadWriters, body \in ReadPageCreateBodies : PostPagesStart(1, u, body)
    \/ \E u \in ReadWriters, body \in TenantMediaCreateBodies : PostMediaStart(1, u, body)
    \/ PostPagesSlugCheck(1) \/ PostPagesCreate(1)
    \/ PostMediaFilenameCheck(1) \/ PostMediaCreate(1)
    \/ \E u \in ReadCallers :
          \/ GetMe(1, u)
          \/ GetSites(1, u)
          \/ \E id \in SiteIds : GetSite(1, u, id)
          \/ \E query \in ReadQueries : GetPages(1, u, query)
          \/ \E id \in PageIds : GetPage(1, u, id)
          \/ \E query \in ReadQueries : GetMedia(1, u, query)
          \/ \E id \in MediaIds : GetMediaById(1, u, id)

SpecRead == Init /\ [][NextRead]_vars

(* SpecById: the by-id operations.  The admins of the two tenants create   *)
(* pages and media on their sites; tenant 1's admin then reads, updates,   *)
(* publishes and deletes sites, pages and media by id, tenant 1's and      *)
(* tenant 2's; one request at a time.                                      *)
NextById ==
    \/ \E u \in ReadWriters, body \in TenantPageCreateBodies : PostPagesStart(1, u, body)
    \/ \E u \in ReadWriters, body \in TenantMediaCreateBodies : PostMediaStart(1, u, body)
    \/ PostPagesSlugCheck(1) \/ PostPagesClearHome(1) \/ PostPagesCreate(1)
    \/ PostMediaFilenameCheck(1) \/ PostMediaCreate(1)
    \/ \E id \in TenantSites : GetSite(1, TenantCaller[1], id)
    \/ \E id \in PageIds : GetPage(1, TenantCaller[1], id)
    \/ \E id \in MediaIds : GetMediaById(1, TenantCaller[1], id)
    \/ \E id \in PageIds, body \in TenantPageUpdateBodies :
          PutPageStart(1, TenantCaller[1], id, body)
    \/ \E id \in PageIds, body \in TenantPagePublishBodies :
          PatchPagePublishStart(1, TenantCaller[1], id, body)
    \/ \E id \in PageIds : DeletePageStart(1, TenantCaller[1], id)
    \/ \E id \in TenantSites, body \in TenantSiteUpdateBodies :
          PutSiteStart(1, TenantCaller[1], id, body)
    \/ \E id \in TenantSites, body \in TenantSitePublishBodies :
          PatchSitePublishStart(1, TenantCaller[1], id, body)
    \/ \E id \in TenantSites : DeleteSiteStart(1, TenantCaller[1], id)
    \/ \E id \in MediaIds, body \in TenantMediaUpdateBodies :
          PutMediaStart(1, TenantCaller[1], id, body)
    \/ \E id \in MediaIds : DeleteMediaStart(1, TenantCaller[1], id)
    \/ PutPageClearHome(1) \/ PutPageUpdate(1)
    \/ PatchPagePublishUpdate(1) \/ DeletePageDelete(1)
    \/ PutSiteUpdate(1)
    \/ PatchSitePublishUpdate(1) \/ DeleteSiteDelete(1)
    \/ PutMediaUpdate(1) \/ DeleteMediaDelete(1)

SpecById == Init /\ [][NextById]_vars

(* SpecSlug: the slug index.  Tenant 1's admin creates pages on the sites  *)
(* 1 and 2 of the tenant, changes their slugs and deletes them, one        *)
(* request at a time (only slot 1 is used).                                *)
SlugCallers == {3}
SlugSites == {1, 2}
SlugCreateBodies ==
    {PageBody(Some(s), Some(slug), None, None, None, None) :
        s \in SlugSites, slug \in {SlugHome, SlugAbout}}
SlugUpdateBodies ==
    {PageBody(None, slug, None, None, None, None) :
        slug \in Opt({SlugHome, SlugAbout})}

NextSlug ==
    \/ \E u \in SlugCallers, body \in SlugCreateBodies : PostPagesStart(1, u, body)
    \/ \E u \in SlugCallers, id \in PageIds, body \in SlugUpdateBodies :
          PutPageStart(1, u, id, body)
    \/ \E u \in SlugCallers, id \in PageIds : DeletePageStart(1, u, id)
    \/ PostPagesSlugCheck(1) \/ PostPagesCreate(1)
    \/ PutPageSlugCheck(1) \/ PutPageUpdate(1)
    \/ DeletePageDelete(1)

SpecSlug == Init /\ [][NextSlug]_vars

(* SpecAuth: registration and login, two requests in flight.  Clients      *)
(* register with a new or a taken email and a new or a taken tenant        *)
(* domain, and log in with the email of an active user, of the deactivated *)
(* user, of a user being registered, or of nobody, with the right or a     *)
(* wrong password.                                                         *)
RegisterBodies ==
    {RegisterBody(Some(email), Some(password), Some(domain)) :
        email \in {Email("n"), Email("m"), Email("3"), NotAnEmail},
        password \in {Password, ShortPassword},
        domain \in {"new", "newer", "one"}}
LoginBodies ==
    {LoginBody(Some(email), Some(password)) :
        email \in {Email("n"), Email("3"), Email("8"), Email("0")},
        password \in {Password, OtherPassword}}

NextAuth ==
    \E p \in Procs :
        \/ \E body \in RegisterBodies : PostRegisterStart(p, body)
        \/ PostRegisterFindTenant(p)
        \/ PostRegisterTransaction(p)
        \/ \E body \in LoginBodies : PostLoginStart(p, body)

SpecAuth == Init /\ [][NextAuth]_vars

(* SpecToken: the bearer token.  While the clock advances, clients call    *)
(* GET /auth/me, POST /sites and POST /pages with no header, with another  *)
(* scheme, and with tokens issued so far (access and refresh tokens of     *)
(* tenant 1's admin, of the deactivated user and of a user whose row does  *)
(* not exist) or forged (signed with another secret); one request at a     *)
(* time.                                                                   *)
TokenUsers == {3, 8, 9}
Identity(u) ==
    IF u \in DOMAIN InitUsers
    THEN [id |-> u, email |-> InitUsers[u].email, role |-> InitUsers[u].role,
          tenantId |-> InitUsers[u].tenantId]
    ELSE [id |-> u, email |-> Email("g"), role |-> "ADMIN", tenantId |-> 1]
AccessTokens(time) ==
    {generateToken(Identity(u), iat) : u \in TokenUsers, iat \in 0..time}
RefreshTokens(time) ==
    {generateRefreshToken([id |-> u], iat) : u \in TokenUsers, iat \in 0..time}
Forged(token) == [token EXCEPT !.sig = "guess"]
PresentedTokens(time) ==
    AccessTokens(time) \cup RefreshTokens(time)
    \cup {Forged(t) : t \in AccessTokens(0)}
Headers(time) ==
    {None}
    \cup {Some([scheme |-> "Basic", token |-> t]) : t \in AccessTokens(0)}
    \cup {Bearer(t) : t \in PresentedTokens(time)}
TokenSiteBodies == {SiteBody(Some("n"), None, None)}
TokenPageBodies == {PageBody(Some(1), Some(SlugHome), None, None, None, None)}

NextToken ==
    \/ Tick
    \/ \E header \in Headers(MaxTime) :
          \/ BearerGetMe(1, header)
          \/ \E body \in TokenSiteBodies : BearerPostSitesStart(1, header, body)
          \/ \E body \in TokenPageBodies : BearerPostPagesStart(1, header, body)
    \/ PostSitesCreate(1)
    \/ PostPagesSlugCheck(1) \/ PostPagesCreate(1)

SpecToken == Init /\ [][NextToken]_vars

(* SpecRole: the roles.  Tenant 1's editor, admin and viewer each issue    *)
(* every mutating request on sites, pages and media, and a client without  *)
(* an Authorization header tries to create a page; one request at a time.  *)
RoleCallers == {1, 3, 4}
RoleSites == {1}
RolePageCreateBodies ==
    {PageBody(Some(1), Some(SlugHome), None, None, None, None)}
RolePageUpdateBodies ==
    {PageBody(None, None, Some("ARCHIVED"), None, None, None)}
RoleMediaCreateBodies == {MediaBody(Some(1), Some("f"), Some("image/png"))}

NextRole ==
    \/ \E header \in {None}, body \in RolePageCreateBodies :
          BearerPostPagesStart(1, header, body)
    \/ \E u \in RoleCallers :
          \/ \E body \in RolePageCreateBodies : PostPagesStart(1, u, body)
          \/ \E id \in PageIds, body \in RolePageUpdateBodies :
                PutPageStart(1, u, id, body)
          \/ \E id \in PageIds, body \in TenantPagePublishBodies :
                PatchPagePublishStart(1, u, id, body)
          \/ \E id \in PageIds : DeletePageStart(1, u, id)
          \/ \E body \in TenantSiteCreateBodies : PostSitesStart(1, u, body)
          \/ \E id \in RoleSites, body \in TenantSiteUpdateBodies :
                PutSiteStart(1, u, id, body)
          \/ \E id \in RoleSites, body \in TenantSitePublishBodies :
                PatchSitePublishStart(1, u, id, body)
          \/ \E id \in RoleSites : DeleteSiteStart(1, u, id)
          \/ \E body \in RoleMediaCreateBodies : PostMediaStart(1, u, body)
          \/ \E id \in MediaIds, body \in TenantMediaUpdateBodies :
                PutMediaStart(1, u, id, body)
          \/ \E id \in MediaIds : DeleteMediaStart(1, u, id)
    \/ PostPagesSlugCheck(1) \/ PostPagesCreate(1)
    \/ PutPageUpdate(1) \/ PatchPagePublishUpdate(1) \/ DeletePageDelete(1)
    \/ PostSitesCreate(1) \/ PutSiteUpdate(1)
    \/ PatchSitePublishUpdate(1) \/ DeleteSiteDelete(1)
    \/ PostMediaFilenameCheck(1) \/ PostMediaCreate(1)
    \/ PutMediaUpdate(1) \/ DeleteMediaDelete(1)

SpecRole == Init /\ [][NextRole]_vars

(* SpecDeny: the denials of the page routes.  Tenant 1's editor, admin and *)
(* viewer create pages on site 1 and update and delete them by id, and a   *)
(* client without an Authorization header tries to create one; one request *)
(* at a time.                                                              *)
DenyPageCreateBodies ==
    {PageBody(Some(1), Some(slug), None, None, None, None) :
        slug \in {SlugHome, SlugAbout}}

NextDeny ==
    \/ \E header \in {None}, body \in DenyPageCreateBodies :
          BearerPostPagesStart(1, header, body)
    \/ \E u \in RoleCallers :
          \/ \E body \in DenyPageCreateBodies : PostPagesStart(1, u, body)
          \/ \E id \in PageIds, body \in RolePageUpdateBodies :
                PutPageStart(1, u, id, body)
          \/ \E id \in PageIds : DeletePageStart(1, u, id)
    \/ PostPagesSlugCheck(1) \/ PostPagesCreate(1)
    \/ PutPageUpdate(1) \/ DeletePageDelete(1)

SpecDeny == Init /\ [][NextDeny]_vars

(* SpecSite: the domains of sites.  The admins of tenant 1 and tenant 2    *)
(* create sites and update them by id, two requests in flight, with no     *)
(* domain, the empty domain and a domain both tenants ask for.             *)
SiteCallers == {3, 6}
SiteDomains == {None, Some(""), Some("d")}
SiteDomainBodies == {SiteBody(Some("n"), domain, None) : domain \in SiteDomains}

NextSite ==
    \E p \in Procs :
        \/ \E u \in SiteCallers, body \in SiteDomainBodies : PostSitesStart(p, u, body)
        \/ \E u \in SiteCallers, id \in SiteIds, body \in SiteDomainBodies :
              PutSiteStart(p, u, id, body)
        \/ PostSitesCreate(p)
        \/ PutSiteDomainCheck(p)
        \/ PutSiteUpdate(p)

SpecSite == Init /\ [][NextSite]_vars

(* SpecMedia: the filenames of media.  Tenant 1's editors upload media to  *)
(* sites 1 and 2 and rename them by id, two requests in flight, with two   *)
(* filenames, the empty filename and no filename.                          *)
MediaCallers == {1, 2}
MediaSites == {1, 2}
MediaFilenames == {"f", "g"}
MediaCreateBodies ==
    {MediaBody(Some(s), Some(f), Some("image/png")) :
        s \in MediaSites, f \in MediaFilenames}
MediaUpdateBodies ==
    {MediaBody(None, f, None) : f \in {None, Some("")} \cup {Some(g) : g \in MediaFilenames}}

NextMedia ==
    \E p \in Procs :
        \/ \E u \in MediaCallers, body \in MediaCreateBodies : PostMediaStart(p, u, body)
        \/ \E u \in MediaCallers, id \in MediaIds, body \in MediaUpdateBodies :
              PutMediaStart(p, u, id, body)
        \/ PostMediaFilenameCheck(p)
        \/ PostMediaCreate(p)
        \/ PutMediaFilenameCheck(p)
        \/ PutMediaUpdate(p)

SpecMedia == Init /\ [][NextMedia]_vars

(* SpecCascade: deleting sites under their pages and media.  Tenant 1's    *)
(* admin creates pages and media on site 1 and deletes sites 1 and 2, two  *)
(* requests in flight.                                                     *)
CascadeCallers == {3}
CascadeSites == {1, 2}
CascadePageBodies ==
    {PageBody(Some(1), Some(slug), None, None, None, None) :
        slug \in {SlugHome, SlugAbout}}
CascadeMediaBodies ==
    {MediaBody(Some(1), Some(f), Some("image/png")) : f \in MediaFilenames}

NextCascade ==
    \E p \in Procs :
        \/ \E u \in CascadeCallers, body \in CascadePageBodies : PostPagesStart(p, u, body)
        \/ \E u \in CascadeCallers, body \in CascadeMediaBodies : PostMediaStart(p, u, body)
        \/ \E u \in CascadeCallers, id \in CascadeSites : DeleteSiteStart(p, u, id)
        \/ PostPagesSlugCheck(p)
        \/ PostPagesCreate(p)
        \/ PostMediaFilenameCheck(p)
        \/ PostMediaCreate(p)
        \/ DeleteSiteDelete(p)

SpecCascade == Init /\ [][NextCascade]_vars

(* SpecHomeSeq: the home page with no request interleaved.  Tenant 1's     *)
(* admin creates pages on sites 1 and 2, with and without the home flag,   *)
(* and sets and unsets the flag by PUT; one request at a time (only slot 1 *)
(* is used).                                                               *)
HomeSeqCallers == {3}
HomeSeqCreateBodies ==
    {PageBody(Some(site), Some(slug), None, home, None, None) :
        site \in {1, 2}, slug \in {SlugHome, SlugAbout}, home \in Opt({TRUE})}

NextHomeSeq ==
    \/ \E u \in HomeSeqCallers, body \in HomeSeqCreateBodies : PostPagesStart(1, u, body)
    \/ \E u \in HomeSeqCallers, id \in PageIds, body \in HomeUpdateBodies :
          PutPageStart(1, u, id, body)
    \/ PostPagesSlugCheck(1) \/ PostPagesClearHome(1) \/ PostPagesCreate(1)
    \/ PutPageClearHome(1) \/ PutPageUpdate(1)

SpecHomeSeq == Init /\ [][NextHomeSeq]_vars

(* SpecError: the refusals.  Tenant 1's editor, admin and viewer send      *)
(* every mutating request on pages, sites and media, with bodies that      *)
(* pass and fail the schemas, home pages among them, to ids of tenant 1,   *)
(* of tenant 2 and of rows that do not exist; clients register, log in     *)
(* and call GET /auth/me with no token, a forged token and tokens of the   *)
(* admin and of the deactivated user.  One request at a time.              *)
ErrorCallers == {1, 3, 4}
ErrorIds == {1, 3}
ErrorPageCreateBodies ==
    {PageBody(Some(s), Some(slug), None, Some(TRUE), None, None) :
        s \in {1, 3}, slug \in {SlugHome, SlugUpper}}
ErrorPageUpdateBodies ==
    {PageBody(None, slug, None, Some(TRUE), None, None) :
        slug \in {None, Some(SlugAbout)}}
ErrorPublishBodies ==
    {PageBody(None, None, status, None, None, None) : status \in {None, Some("DRAFT")}}
ErrorSiteBodies ==
    {SiteBody(name, Some("d"), None) : name \in {Some(""), Some("n")}}
ErrorSitePublishBodies == {SiteBody(None, None, Some(FALSE))}
ErrorMediaCreateBodies ==
    {MediaBody(Some(1), filename, Some("image/png")) : filename \in {Some(""), Some("f")}}
ErrorMediaUpdateBodies == {MediaBody(None, Some("g"), None)}
ErrorRegisterBodies ==
    {RegisterBody(Some(email), Some(Password), Some(domain)) :
        email \in {Email("n"), Email("3"), NotAnEmail}, domain \in {"new", "one"}}
ErrorLoginBodies ==
    {LoginBody(Some(email), Some(Password)) : email \in {Email("3"), Email("0"), NotAnEmail}}

NextError ==
    \/ \E u \in ErrorCallers :
          \/ \E body \in ErrorPageCreateBodies : PostPagesStart(1, u, body)
          \/ \E id \in ErrorIds, body \in ErrorPageUpdateBodies : PutPageStart(1, u, id, body)
          \/ \E id \in ErrorIds, body \in ErrorPublishBodies :
                PatchPagePublishStart(1, u, id, body)
          \/ \E id \in ErrorIds : DeletePageStart(1, u, id)
          \/ \E body \in ErrorSiteBodies : PostSitesStart(1, u, body)
          \/ \E id \in ErrorIds, body \in ErrorSiteBodies : PutSiteStart(1, u, id, body)
          \/ \E id \in ErrorIds, body \in ErrorSitePublishBodies :
                PatchSitePublishStart(1, u, id, body)
          \/ \E id \in ErrorIds : DeleteSiteStart(1, u, id)
          \/ \E body \in ErrorMediaCreateBodies : PostMediaStart(1, u, body)
          \/ \E id \in ErrorIds, body \in ErrorMediaUpdateBodies : PutMediaStart(1, u, id, body)
          \/ \E id \in ErrorIds : DeleteMediaStart(1, u, id)
    \/ \E header \in Headers(0) : BearerGetMe(1, header)
    \/ \E body \in ErrorRegisterBodies : PostRegisterStart(1, body)
    \/ \E body \in ErrorLoginBodies : PostLoginStart(1, body)
    \/ PostPagesSlugCheck(1) \/ PostPagesClearHome(1) \/ PostPagesCreate(1)
    \/ PutPageSlugCheck(1) \/ PutPageClearHome(1) \/ PutPageUpdate(1)
    \/ PatchPagePublishUpdate(1) \/ DeletePageDelete(1)
    \/ PostSitesCreate(1) \/ PutSiteDomainCheck(1) \/ PutSiteUpdate(1)
    \/ PatchSitePublishUpdate(1) \/ DeleteSiteDelete(1)
    \/ PostMediaFilenameCheck(1) \/ PostMediaCreate(1)
    \/ PutMediaFilenameCheck(1) \/ PutMediaUpdate(1) \/ DeleteMediaDelete(1)
    \/ PostRegisterFindTenant(1) \/ PostRegisterTransaction(1)

SpecError == Init /\ [][NextError]_vars

(* SpecStatus: page creations and status changes interleaved.  Tenant 1's  *)
(* admin creates pages on site 1, as drafts, archived or published, and    *)
(* changes their status by PUT and PATCH, two requests in flight, so that  *)
(* a status change may act on a row that has changed since it was read.    *)
StatusCallers == {3}
StatusIds == {1, 2}
StatusCreateBodies ==
    {PageBody(Some(1), Some(SlugHome), status, None, None, None) :
        status \in {None, Some("ARCHIVED"), Some("PUBLISHED")}}
StatusUpdateBodies ==
    {PageBody(None, None, Some(status), None, None, None) :
        status \in {"DRAFT", "PUBLISHED"}}
StatusPublishBodies ==
    {PageBody(None, None, Some(status), None, None, None) :
        status \in {"ARCHIVED", "PUBLISHED"}}

NextStatus ==
    \E p \in Procs :
        \/ \E u \in StatusCallers :
              \/ \E body \in StatusCreateBodies : PostPagesStart(p, u, body)
              \/ \E id \in StatusIds, body \in StatusUpdateBodies :
                    PutPageStart(p, u, id, body)
              \/ \E id \in StatusIds, body \in StatusPublishBodies :
                    PatchPagePublishStart(p, u, id, body)
              \/ \E id \in StatusIds : DeletePageStart(p, u, id)
        \/ PostPagesSlugCheck(p) \/ PostPagesCreate(p)
        \/ PutPageUpdate(p) \/ PatchPagePublishUpdate(p) \/ DeletePageDelete(p)

SpecStatus == Init /\ [][NextStatus]_vars

(* SpecLinks: bodies that name another owner.  Tenant 1's editor and admin *)
(* create pages, sites and media and update and publish them with bodies   *)
(* that carry, besides the keys of the schema, a siteId, an authorId or a  *)
(* tenantId other than the row's; a client registers a tenant.  One        *)
(* request at a time.                                                      *)
LinkCallers == {1, 3}
LinkIds == {1}
LinkPageCreateBodies ==
    {PageBody(Some(1), Some(SlugHome), None, None, Some(2), None)}
LinkPageUpdateBodies ==
    {PageBody(Some(2), Some(SlugAbout), None, None, Some(2), None)}
LinkPublishBodies ==
    {PageBody(Some(2), None, Some("PUBLISHED"), None, Some(2), None)}
LinkSiteBodies ==
    {[name |-> Some("n"), domain |-> Some("d"), isPublished |-> None, tenantId |-> Some(2)]}
LinkSitePublishBodies ==
    {[name |-> None, domain |-> None, isPublished |-> Some(TRUE), tenantId |-> Some(2)]}
LinkMediaCreateBodies == {MediaBody(Some(1), Some("f"), Some("image/png"))}
LinkMediaUpdateBodies ==
    {MediaBody(Some(2), Some("g"), None)}
LinkRegisterBodies == {RegisterBody(Some(Email("n")), Some(Password), Some("new"))}

NextLinks ==
    \/ \E u \in LinkCallers :
          \/ \E body \in LinkPageCreateBodies : PostPagesStart(1, u, body)
          \/ \E id \in LinkIds, body \in LinkPageUpdateBodies : PutPageStart(1, u, id, body)
          \/ \E id \in LinkIds, body \in LinkPublishBodies :
                PatchPagePublishStart(1, u, id, body)
          \/ \E body \in LinkSiteBodies : PostSitesStart(1, u, body)
          \/ \E id \in LinkIds, body \in LinkSiteBodies : PutSiteStart(1, u, id, body)
          \/ \E id \in LinkIds, body \in LinkSitePublishBodies :
                PatchSitePublishStart(1, u, id, body)
          \/ \E body \in LinkMediaCreateBodies : PostMediaStart(1, u, body)
          \/ \E id \in LinkIds, body \in LinkMediaUpdateBodies : PutMediaStart(1, u, id, body)
    \/ \E body \in LinkRegisterBodies : PostRegisterStart(1, body)
    \/ PostPagesSlugCheck(1) \/ PostPagesCreate(1)
    \/ PutPageSlugCheck(1) \/ PutPageUpdate(1) \/ PatchPagePublishUpdate(1)
    \/ PostSitesCreate(1) \/ PutSiteDomainCheck(1) \/ PutSiteUpdate(1)
    \/ PatchSitePublishUpdate(1)
    \/ PostMediaFilenameCheck(1) \/ PostMediaCreate(1)
    \/ PutMediaFilenameCheck(1) \/ PutMediaUpdate(1)
    \/ PostRegisterFindTenant(1) \/ PostRegisterTransaction(1)

SpecLinks == Init /\ [][NextLinks]_vars

(* SpecIdentity: tokens that outlive the row they were issued from.  The   *)
(* access tokens issued at time 0 to tenant 1's editor and admin are       *)
(* presented on GET /auth/me and POST /sites (an admin route) while the    *)
(* two rows are deactivated, deleted or given another role; the clock      *)
(* stands still, so the tokens never expire.  One request at a time.       *)
IdentityUsers == {1, 3}
IdentityRoles == {"ADMIN", "EDITOR", "VIEWER"}
IdentityToken(u) == generateToken(Identity(u), 0)
IdentityHeaders == {Bearer(IdentityToken(u)) : u \in IdentityUsers}
IdentitySiteBodies == {SiteBody(Some("n"), None, None)}

NextIdentity ==
    \/ \E header \in IdentityHeaders :
          \/ BearerGetMe(1, header)
          \/ \E body \in IdentitySiteBodies : BearerPostSitesStart(1, header, body)
    \/ PostSitesCreate(1)
    \/ \E u \in IdentityUsers :
          \/ UserDeactivated(u)
          \/ UserDeleted(u)
          \/ \E role \in IdentityRoles : UserRoleChanged(u, role)

SpecIdentity == Init /\ [][NextIdentity]_vars

(* SpecFlag: the home flags of the other pages.  Tenant 1's admin creates  *)
(* pages on sites 1 and 2 with the home flag set, unset and absent, sets   *)
(* and unsets it by PUT, changes status by PUT and PATCH and deletes       *)
(* pages, two requests in flight.                                          *)
FlagCallers == {3}
FlagCreateBodies ==
    {PageBody(Some(1), Some(slug), None, home, None, None) :
        slug \in {SlugHome, SlugAbout}, home \in {None, Some(TRUE)}}
    \cup {PageBody(Some(2), Some(SlugHome), None, Some(TRUE), None, None)}
FlagUpdateBodies ==
    {PageBody(None, None, None, home, None, None) : home \in Opt(BOOLEAN)}
FlagPublishBodies == {PageBody(None, None, Some("DRAFT"), None, None, None)}

NextFlag ==
    \E p \in Procs :
        \/ \E u \in FlagCallers :
              \/ \E body \in FlagCreateBodies : PostPagesStart(p, u, body)
              \/ \E id \in PageIds, body \in FlagUpdateBodies : PutPageStart(p, u, id, body)
              \/ \E id \in PageIds, body \in FlagPublishBodies :
                    PatchPagePublishStart(p, u, id, body)
              \/ \E id \in PageIds : DeletePageStart(p, u, id)
        \/ PostPagesSlugCheck(p) \/ PostPagesClearHome(p) \/ PostPagesCreate(p)
        \/ PutPageClearHome(p) \/ PutPageUpdate(p)
        \/ PatchPagePublishUpdate(p) \/ DeletePageDelete(p)

SpecFlag == Init /\ [][NextFlag]_vars

(* SpecCreate: the row POST /pages creates.  Tenant 1's editor and admin   *)
(* create pages on site 1 with every status or none, with the home flag    *)
(* true, false or absent, and with or without an authorId key naming       *)
(* another user, while the clock advances; one request at a time.          *)
CreateCallers == {1, 3}
CreateBodies ==
    {PageBody(Some(1), Some(slug), status, home, authorId, None) :
        slug \in {SlugHome, SlugAbout}, status \in Opt(Statuses),
        home \in Opt(BOOLEAN), authorId \in {None, Some(2)}}

NextCreate ==
    \/ \E u \in CreateCallers, body \in CreateBodies : PostPagesStart(1, u, body)
    \/ PostPagesSlugCheck(1) \/ PostPagesClearHome(1) \/ PostPagesCreate(1)
    \/ Tick

SpecCreate == Init /\ [][NextCreate]_vars

(* SpecSiteSeq: the domains of sites with no request interleaved.  Tenant  *)
(* 1's admin creates sites and updates them by id with no domain, the      *)
(* empty domain and the domain "d"; one request at a time (only slot 1 is  *)
(* used), so that a domain found free by the lookup is still free at the   *)
(* write.                                                                  *)
SiteSeqCallers == {3}

NextSiteSeq ==
    \/ \E u \in SiteSeqCallers, body \in SiteDomainBodies : PostSitesStart(1, u, body)
    \/ \E u \in SiteSeqCallers, id \in SiteIds, body \in SiteDomainBodies :
          PutSiteStart(1, u, id, body)
    \/ PostSitesCreate(1)
    \/ PutSiteDomainCheck(1)
    \/ PutSiteUpdate(1)

SpecSiteSeq == Init /\ [][NextSiteSeq]_vars

(* SpecParse: the body parse of every route that has one.  Tenant 1's      *)
(* admin sends bodies that pass and bodies that fail each schema, to ids   *)
(* that exist, that belong to tenant 2 and that do not exist; clients      *)
(* register and log in with bodies of both kinds.  One request at a time.  *)
ParseCallers == {3}
ParseProcs == {1}
NotAStatus == "BOGUS"
ParsePageCreateBodies ==
    {PageBody(siteId, slug, status, None, None, None) :
        siteId \in {None, Some(1), Some(3)},
        slug \in {None, Some(SlugHome), Some(SlugUpper)},
        status \in {None, Some(NotAStatus)}}
ParsePageUpdateBodies ==
    {PageBody(None, slug, status, None, None, None) :
        slug \in {None, Some(SlugUpper)}, status \in {None, Some(NotAStatus)}}
ParsePublishBodies ==
    {PageBody(None, None, status, None, None, None) :
        status \in {None, Some("DRAFT"), Some(NotAStatus)}}
ParseSiteBodies ==
    {SiteBody(name, domain, None) :
        name \in {None, Some(""), Some("n")}, domain \in {None, Some("d")}}
ParseSitePublishBodies ==
    {SiteBody(None, None, isPublished) : isPublished \in {None, Some(FALSE)}}
ParseMediaCreateBodies ==
    {MediaBody(siteId, filename, Some("image/png")) :
        siteId \in {Some(1), Some(3)}, filename \in {None, Some(""), Some("f")}}
(* The update schema of media fails on a filename that is no string only;  *)
(* the bodies here are strings or absent, and all pass.                    *)
ParseMediaUpdateBodies ==
    {MediaBody(None, filename, None) : filename \in {None, Some("g")}}
ParseRegisterBodies ==
    {RegisterBody(Some(email), Some(password), Some(domain)) :
        email \in {Email("n"), Email("3"), NotAnEmail},
        password \in {Password, ShortPassword},
        domain \in {"new", "one", ""}}
ParseLoginBodies ==
    {LoginBody(email, Some(password)) :
        email \in {None, Some(Email("3")), Some(NotAnEmail)},
        password \in {Password, <<>>}}
ParseIds == {1, 3}

NextParse ==
    \E p \in ParseProcs :
        \/ \E u \in ParseCallers :
              \/ \E body \in ParsePageCreateBodies : PostPagesStart(p, u, body)
              \/ \E id \in ParseIds, body \in ParsePageUpdateBodies :
                    PutPageStart(p, u, id, body)
              \/ \E id \in ParseIds, body \in ParsePublishBodies :
                    PatchPagePublishStart(p, u, id, body)
              \/ \E body \in ParseSiteBodies : PostSitesStart(p, u, body)
              \/ \E id \in ParseIds, body \in ParseSiteBodies : PutSiteStart(p, u, id, body)
              \/ \E id \in ParseIds, body \in ParseSitePublishBodies :
                    PatchSitePublishStart(p, u, id, body)
              \/ \E body \in ParseMediaCreateBodies : PostMediaStart(p, u, body)
              \/ \E id \in ParseIds, body \in ParseMediaUpdateBodies :
                    PutMediaStart(p, u, id, body)
        \/ \E body \in ParseRegisterBodies : PostRegisterStart(p, body)
        \/ \E body \in ParseLoginBodies : PostLoginStart(p, body)
        \/ PostPagesSlugCheck(p) \/ PostPagesCreate(p)
        \/ PutPageUpdate(p)
        \/ PatchPagePublishUpdate(p)
        \/ PostSitesCreate(p) \/ PutSiteDomainCheck(p) \/ PutSiteUpdate(p)
        \/ PatchSitePublishUpdate(p)
        \/ PostMediaFilenameCheck(p) \/ PostMediaCreate(p)
        \/ PutMediaFilenameCheck(p) \/ PutMediaUpdate(p)
        \/ PostRegisterFindTenant(p) \/ PostRegisterTransaction(p)

SpecParse == Init /\ [][NextParse]_vars

(* SpecLive: every route, with the failures of its collaborators.  Tenant  *)
(* 1's admin writes pages, sites and media, clients register, log in and   *)
(* present tokens, and any database call may throw; two requests in        *)
(* flight.  The event loop resumes every suspended handler: the database   *)
(* call it waits for returns or throws (weak fairness of Serve).           *)
LiveCallers == {3}
LiveIds == {1}
LivePageCreateBodies == {PageBody(Some(1), Some(SlugHome), None, Some(TRUE), None, None)}
LivePageUpdateBodies == {PageBody(None, Some(SlugHome), None, Some(TRUE), None, None),
                         PageBody(None, Some(SlugAbout), None, None, None, None)}
LivePublishBodies == {PageBody(None, None, Some("DRAFT"), None, None, None)}
LiveSiteBodies == {SiteBody(Some("n"), Some("d"), None)}
LiveSitePublishBodies == {SiteBody(None, None, Some(FALSE))}
LiveMediaCreateBodies == {MediaBody(Some(1), Some("f"), Some("image/png"))}
LiveMediaUpdateBodies == {MediaBody(None, Some("g"), None)}
LiveRegisterBodies ==
    {RegisterBody(Some(Email("n")), Some(Password), Some("new")),
     RegisterBody(Some(NotAnEmail), Some(Password), Some("new"))}
LiveLoginBodies == {LoginBody(Some(Email("3")), Some(Password))}
LiveQueries == {[siteId |-> None, status |-> None, type |-> None, search |-> None]}

Serve(p) ==
    \/ PostPagesSlugCheck(p) \/ PostPagesClearHome(p) \/ PostPagesCreate(p)
    \/ PutPageSlugCheck(p) \/ PutPageClearHome(p) \/ PutPageUpdate(p)
    \/ PatchPagePublishUpdate(p) \/ DeletePageDelete(p)
    \/ PostSitesCreate(p) \/ PutSiteDomainCheck(p) \/ PutSiteUpdate(p)
    \/ PatchSitePublishUpdate(p) \/ DeleteSiteDelete(p)
    \/ PostMediaFilenameCheck(p) \/ PostMediaCreate(p)
    \/ PutMediaFilenameCheck(p) \/ PutMediaUpdate(p) \/ DeleteMediaDelete(p)
    \/ PostRegisterFindTenant(p) \/ PostRegisterTransaction(p)
    \/ QueryThrows(p)

LiveProcs == {1}
NextLive ==
    \E p \in LiveProcs :
        \/ \E u \in LiveCallers :
              \/ \E body \in LivePageCreateBodies : PostPagesStart(p, u, body)
              \/ \E id \in LiveIds, body \in LivePageUpdateBodies : PutPageStart(p, u, id, body)
              \/ \E id \in LiveIds, body \in LivePublishBodies :
                    PatchPagePublishStart(p, u, id, body)
              \/ \E id \in LiveIds : DeletePageStart(p, u, id)
              \/ \E body \in LiveSiteBodies : PostSitesStart(p, u, body)
              \/ \E id \in LiveIds, body \in LiveSiteBodies : PutSiteStart(p, u, id, body)
              \/ \E id \in LiveIds, body \in LiveSitePublishBodies :
                    PatchSitePublishStart(p, u, id, body)
              \/ \E id \in LiveIds : DeleteSiteStart(p, u, id)
              \/ \E body \in LiveMediaCreateBodies : PostMediaStart(p, u, body)
              \/ \E id \in LiveIds, body \in LiveMediaUpdateBodies :
                    PutMediaStart(p, u, id, body)
              \/ \E id \in LiveIds : DeleteMediaStart(p, u, id)
              \/ \E query \in LiveQueries : GetPages(p, u, query)
              \/ \E id \in LiveIds : GetPage(p, u, id)
              \/ GetSites(p, u)
              \/ \E id \in LiveIds : GetSite(p, u, id)
              \/ \E query \in LiveQueries : GetMedia(p, u, query)
              \/ \E id \in LiveIds : GetMediaById(p, u, id)
        \/ \E header \in Headers(0) : BearerGetMe(p, header)
        \/ \E body \in LiveRegisterBodies : PostRegisterStart(p, body)
        \/ \E body \in LiveLoginBodies : PostLoginStart(p, body)
        \/ \E route \in DbRoutes : FirstQueryThrows(p, route)
        \/ AuthenticateThrows(p)
        \/ Serve(p)

SpecLive == Init /\ [][NextLive]_vars /\ \A p \in LiveProcs : WF_vars(Serve(p))

(* ================================ claims ============================== *)
HomePagesOf(s) == {i \in DOMAIN pages : pages[i].siteId = s /\ pages[i].isHomePage}

(* C1: in every reachable state every Site has at most one Page with       *)
(* isHomePage = true, under every interleaving of concurrent POST /pages   *)
(* and PUT /pages/:id requests that set isHomePage = true.                 *)
C1_HomePageSingleton ==
    \A s \in DOMAIN sites : Cardinality(HomePagesOf(s)) <= 1

(* The request in slot p takes a step (one of its database operations).    *)
Acts(p) == req[p].pc # "idle" /\ req'[p] # req[p]
EditorActs(p) == Acts(p) /\ users[req[p].uid].role = "EDITOR"
(* The Site whose home pages the request in slot p clears.                 *)
TargetSite(p) ==
    IF req[p].route = "POST /pages" THEN Get(req[p].data.siteId)
    ELSE Get(req[p].existing).siteId
OthersPages(uid) == {i \in DOMAIN pages : pages[i].authorId # uid}

(* C6: no request of an EDITOR changes any field of, or deletes, a Page    *)
(* whose authorId differs from the caller's id, the isHomePage flag of     *)
(* other authors' pages included.                                          *)
C6_EditorLeavesOthersPages ==
    [][\A p \in Procs : EditorActs(p) =>
          \A i \in OthersPages(req[p].uid) :
              i \in DOMAIN pages' /\ pages'[i] = pages[i]]_vars

(* C6 as amended: no request of an EDITOR deletes a Page of another author *)
(* or changes any of its fields other than isHomePage; that flag is only   *)
(* ever cleared (true to false), by the EDITOR's own create or update with *)
(* isHomePage = true, on pages of the same Site.                           *)
C6_EditorOnlyClearsOthersHomeFlag ==
    [][\A p \in Procs : EditorActs(p) =>
          \A i \in OthersPages(req[p].uid) :
              /\ i \in DOMAIN pages'
              /\ \/ pages'[i] = pages[i]
                 \/ /\ pages'[i] = [pages[i] EXCEPT !.isHomePage = FALSE]
                    /\ req[p].data.isHomePage = Some(TRUE)
                    /\ pages[i].siteId = TargetSite(p)]_vars

(* An EDITOR's request is about to clear the home page of another author.  *)
C6_Witness ==
    \E p \in Procs :
        /\ req[p].pc \in {"createPage.updateMany", "updatePage.updateMany"}
        /\ users[req[p].uid].role = "EDITOR"
        /\ \E i \in OthersPages(req[p].uid) :
              pages[i].isHomePage /\ pages[i].siteId = TargetSite(p)

(* The request in slot p is answered by this step, after its first one.    *)
Answered(p) == req[p].pc # "idle" /\ req'[p].pc = "idle"
PagesInTenantOf(u) ==
    {i \in DOMAIN pages : sites[pages[i].siteId].tenantId = users[u].tenantId}
(* The ownership rule on the first step of a by-id page write: an EDITOR   *)
(* who is not the author is answered "not owner", anyone else goes on.     *)
(* The rule reads the page table only, so the formulas below evaluate it   *)
(* in every state the table enters (it holds of the empty table).          *)
OwnershipRule(begin, u, id, message) ==
    IF users[u].role = "EDITOR" /\ pages[id].authorId # u
    THEN begin = Reply(NotOwner(message))
    ELSE begin.slot.pc # "idle"
OwnershipRuleOn(updateBodies, publishBodies) ==
    \A u \in OwnerCallers : \A id \in PagesInTenantOf(u) :
        /\ \A body \in updateBodies :
              OwnershipRule(PutPage(u, id, body), u, id,
                            "You can only edit your own pages")
        /\ \A body \in publishBodies :
              OwnershipRule(PatchPagePublish(u, id, body), u, id,
                            "You can only modify your own pages")
        /\ OwnershipRule(DeletePage(u, id), u, id,
                         "You can only delete your own pages")
NotOwnerMessages ==
    {"You can only edit your own pages", "You can only modify your own pages",
     "You can only delete your own pages"}
(* A step that answers "not owner" leaves every page as it was.            *)
DenialKeepsPages ==
    (out' # out /\ out'.message \in NotOwnerMessages) => pages' = pages
ByIdPageWrites ==
    {"PUT /pages/:id", "PATCH /pages/:id/publish", "DELETE /pages/:id"}

(* C7: for PUT /pages/:id, PATCH /pages/:id/publish and DELETE /pages/:id  *)
(* on a page of the caller's tenant, an EDITOR succeeds when the page is   *)
(* their own and is answered "not owner" (page unchanged) when it is not;  *)
(* an ADMIN or SUPER_ADMIN of the tenant succeeds whoever the author is.   *)
C7_OwnershipAsStated ==
    [][/\ pages' # pages => OwnershipRuleOn(OwnerUpdateBodies, OwnerPublishBodies)'
       /\ DenialKeepsPages
       /\ \A p \in Procs :
             (Answered(p) /\ req[p].route \in ByIdPageWrites) => out'.status = 200]_vars

(* C7 as amended: the same for requests whose body passes the route's      *)
(* schema, where "succeeds" allows one other answer, the 400 "Slug already *)
(* exists" of a PUT whose new slug another page of the Site holds.         *)
C7_OwnershipOfValidRequests ==
    [][/\ pages' # pages =>
             OwnershipRuleOn({b \in OwnerUpdateBodies : IsSome(UpdatePageSchema(b))},
                             {b \in OwnerPublishBodies : IsSome(PublishPageSchema(b))})'
       /\ DenialKeepsPages
       /\ \A p \in Procs :
             (Answered(p) /\ req[p].route \in ByIdPageWrites) =>
                 \/ out'.status = 200
                 \/ /\ req[p].route = "PUT /pages/:id"
                    /\ out'.error = "Slug already exists"
                    /\ \E i \in DOMAIN pages \ {req[p].id} :
                          /\ pages[i].siteId = pages[req[p].id].siteId
                          /\ Some(pages[i].slug) = req[p].data.slug]_vars

(* An EDITOR was answered "not owner" for a page another user authored,    *)
(* while an admin's update of a page has succeeded before.                 *)
C7_Witness ==
    /\ out = NotOwner("You can only edit your own pages")
    /\ \E i \in DOMAIN pages : pages[i].authorId = 2 /\ pages[i].status = "ARCHIVED"
    /\ \E i \in DOMAIN pages : pages[i].authorId = 1

(* C8: once a Page's publishedAt has been set it keeps that value through  *)
(* every later status change made by PUT /pages/:id or                     *)
(* PATCH /pages/:id/publish, a return to PUBLISHED included.               *)
C8_PublishedAtRetained ==
    [][\A i \in DOMAIN pages :
          (IsSome(pages[i].publishedAt) /\ i \in DOMAIN pages') =>
              pages'[i].publishedAt = pages[i].publishedAt]_vars

(* C9: a Page's publishedAt is never cleared; once non-null it is non-null *)
(* after every PUT /pages/:id and PATCH /pages/:id/publish, whatever the   *)
(* status set and whatever keys the body carries.                          *)
C9_PublishedAtNeverCleared ==
    [][\A i \in DOMAIN pages :
          (IsSome(pages[i].publishedAt) /\ i \in DOMAIN pages') =>
              IsSome(pages'[i].publishedAt)]_vars

(* A PUT whose body carried publishedAt: null and status ARCHIVED has      *)
(* answered, and the page it archived still has its stamp.                 *)
C9_Witness ==
    /\ out.message = "Page updated successfully"
    /\ \E i \in out.pages :
          /\ i \in DOMAIN pages
          /\ pages[i].status = "ARCHIVED"
          /\ IsSome(pages[i].publishedAt)

StatusWrites == {"updatePage.update", "publishPage.update"}
(* C10: when PUT /pages/:id or PATCH /pages/:id/publish sets PUBLISHED on  *)
(* a page whose stored status is not PUBLISHED, publishedAt becomes the    *)
(* current time; when the stored status is PUBLISHED already, or the       *)
(* status requested is not PUBLISHED, publishedAt is left as it was.       *)
C10_StampOnTransition ==
    [][\A p \in Procs :
          (req[p].pc \in StatusWrites /\ Answered(p) /\ out'.status = 200) =>
              LET id == req[p].id IN
              IF /\ req[p].data.status = Some("PUBLISHED")
                 /\ pages[id].status # "PUBLISHED"
              THEN pages'[id].publishedAt = Some(now)
              ELSE pages'[id].publishedAt = pages[id].publishedAt]_vars

(* A PATCH has published, at time 2, a page that was not PUBLISHED, while  *)
(* another page published at time 0 is PUBLISHED still.                    *)
C10_Witness ==
    /\ now = 2
    /\ out.message = "Page status changed successfully"
    /\ \E i \in out.pages : \E j \in DOMAIN pages :
          /\ i \in DOMAIN pages /\ i # j
          /\ pages[i].status = "PUBLISHED" /\ pages[i].publishedAt = Some(2)
          /\ pages[j].status = "PUBLISHED" /\ pages[j].publishedAt = Some(0)

(* ---------------------------- tenant isolation ------------------------- *)
SitesOfTenant(t) == {i \in DOMAIN sites : sites[i].tenantId = t}
PagesOfTenant(t) == {i \in DOMAIN pages : pages[i].siteId \in SitesOfTenant(t)}
MediaOfTenant(t) == {i \in DOMAIN media : media[i].siteId \in SitesOfTenant(t)}
UsersOfTenant(t) == {u \in DOMAIN users : users[u].tenantId = t}

AllQueries ==
    {[siteId |-> siteId, status |-> status, type |-> type, search |-> search] :
        siteId \in Opt({1, 3}), status \in Opt({"DRAFT", "PUBLISHED"}),
        type \in Opt({"images", "documents"}), search \in Opt({{1, 2}})}
ReadResponses(u) ==
    {GetMeResponse(u).resp, GetSitesResponse(u).resp}
    \cup {GetSiteResponse(u, id).resp : id \in SiteIds}
    \cup {GetPagesResponse(u, query).resp : query \in AllQueries}
    \cup {GetPageResponse(u, id).resp : id \in PageIds}
    \cup {GetMediaResponse(u, query).resp : query \in AllQueries}
    \cup {GetMediaByIdResponse(u, id).resp : id \in MediaIds}

(* C2: whatever an authenticated identity of a tenant reads (GET /sites,   *)
(* /sites/:id, /pages, /pages/:id, /media, /media/:id, /auth/me), in any   *)
(* reachable state and with any query parameters, the response carries no  *)
(* Site, Page, Media or User of another tenant.                            *)
C2_ReadsStayInTenant ==
    \A u \in DOMAIN users : \A r \in ReadResponses(u) :
        LET t == users[u].tenantId IN
        /\ r.tenants \subseteq {t}
        /\ r.sites \subseteq SitesOfTenant(t)
        /\ r.pages \subseteq PagesOfTenant(t)
        /\ r.media \subseteq MediaOfTenant(t)
        /\ r.users \subseteq UsersOfTenant(t)

(* Tenant 2's admin has listed pages and got tenant 2's page, while tenant *)
(* 1 has a page as well.                                                   *)
C2_Witness ==
    /\ out.status = 200 /\ out.message = ""
    /\ out.pages # {} /\ out.pages = PagesOfTenant(2)
    /\ out.users = {6}
    /\ PagesOfTenant(1) # {}

(* The rows a tenant owns.                                                 *)
RowsOf(t) ==
    <<[i \in SitesOfTenant(t) |-> sites[i]],
      [i \in PagesOfTenant(t) |-> pages[i]],
      [i \in MediaOfTenant(t) |-> media[i]]>>
(* The caller of the request in slot p that takes this step.               *)
StepCaller(p) == IF req[p].pc # "idle" THEN req[p].uid ELSE req'[p].uid

(* C3: no step of a request issued by an identity of one tenant creates,   *)
(* modifies or deletes a Site, Page or Media of another tenant: a step     *)
(* taken by no request of tenant t leaves the rows of t as they were.      *)
C3_WritesStayInTenant ==
    [][\A t \in TenantIds :
          (\A p \in Procs :
              req'[p] # req[p] => users[StepCaller(p)].tenantId # t) =>
              RowsOf(t)' = RowsOf(t)]_vars

(* Tenant 1's admin has deleted a site of tenant 1 and cleared home pages  *)
(* while tenant 2 owns a home page and a media file.                       *)
C3_Witness ==
    /\ out.message = "Site deleted successfully"
    /\ \E i \in PagesOfTenant(2) : pages[i].isHomePage
    /\ MediaOfTenant(2) # {}
    /\ 1 \notin DOMAIN sites

SiteUpdateInputs == {SiteBody(Some("n"), Some("d"), None), SiteBody(Some(""), None, None)}
SitePublishInputs == {SiteBody(None, None, Some(TRUE)), SiteBody(None, None, None)}
PageUpdateInputs ==
    {PageBody(None, Some(slug), None, Some(TRUE), None, None) :
        slug \in {SlugAbout, SlugUpper}}
PagePublishInputs ==
    {PageBody(None, None, status, None, None, None) : status \in Opt({"PUBLISHED"})}
MediaUpdateInputs == {MediaBody(None, filename, None) : filename \in Opt({"g", ""})}

IsNotFound(begin) == begin.slot.pc = "idle" /\ begin.resp.status = 404
SiteAdmins == {"ADMIN", "SUPER_ADMIN"}
ContentEditors == {"EDITOR", "ADMIN", "SUPER_ADMIN"}
OtherSites(u) == DOMAIN sites \ SitesOfTenant(users[u].tenantId)
OtherPages(u) == DOMAIN pages \ PagesOfTenant(users[u].tenantId)
OtherMedia(u) == DOMAIN media \ MediaOfTenant(users[u].tenantId)

(* The callers authenticate admits: users whose row exists and is active. *)
Authenticated == {u \in DOMAIN users : IsSome(authenticate(u))}

(* C4: for every by-id operation (GET, PUT, PATCH, DELETE on /sites/:id,   *)
(* /pages/:id, /media/:id) and every authenticated caller of any role, a   *)
(* resource that exists in another tenant is answered not-found.           *)
C4_OtherTenantIsNotFound ==
    \A u \in Authenticated :
        /\ \A id \in OtherSites(u) :
              /\ IsNotFound(GetSiteResponse(u, id))
              /\ IsNotFound(DeleteSite(u, id))
              /\ \A body \in SiteUpdateInputs : IsNotFound(PutSite(u, id, body))
              /\ \A body \in SitePublishInputs : IsNotFound(PatchSitePublish(u, id, body))
        /\ \A id \in OtherPages(u) :
              /\ IsNotFound(GetPageResponse(u, id))
              /\ IsNotFound(DeletePage(u, id))
              /\ \A body \in PageUpdateInputs : IsNotFound(PutPage(u, id, body))
              /\ \A body \in PagePublishInputs : IsNotFound(PatchPagePublish(u, id, body))
        /\ \A id \in OtherMedia(u) :
              /\ IsNotFound(GetMediaByIdResponse(u, id))
              /\ IsNotFound(DeleteMedia(u, id))
              /\ \A body \in MediaUpdateInputs : IsNotFound(PutMedia(u, id, body))

(* C4 as amended: the same for the GETs of every caller, and for the PUT,  *)
(* PATCH and DELETE of callers whose role the route admits (ADMIN and      *)
(* SUPER_ADMIN on sites; EDITOR, ADMIN and SUPER_ADMIN on pages and media) *)
(* with a body that passes the route's schema.                             *)
C4_OtherTenantIsNotFoundWhenAdmitted ==
    \A u \in Authenticated :
        /\ \A id \in OtherSites(u) :
              /\ IsNotFound(GetSiteResponse(u, id))
              /\ users[u].role \in SiteAdmins =>
                    /\ IsNotFound(DeleteSite(u, id))
                    /\ \A body \in SiteUpdateInputs :
                          IsSome(UpdateSiteSchema(body)) => IsNotFound(PutSite(u, id, body))
                    /\ \A body \in SitePublishInputs :
                          IsSome(PublishSiteSchema(body)) =>
                              IsNotFound(PatchSitePublish(u, id, body))
        /\ \A id \in OtherPages(u) :
              /\ IsNotFound(GetPageResponse(u, id))
              /\ users[u].role \in ContentEditors =>
                    /\ IsNotFound(DeletePage(u, id))
                    /\ \A body \in PageUpdateInputs :
                          IsSome(UpdatePageSchema(body)) => IsNotFound(PutPage(u, id, body))
                    /\ \A body \in PagePublishInputs :
                          IsSome(PublishPageSchema(body)) =>
                              IsNotFound(PatchPagePublish(u, id, body))
        /\ \A id \in OtherMedia(u) :
              /\ IsNotFound(GetMediaByIdResponse(u, id))
              /\ users[u].role \in ContentEditors =>
                    /\ IsNotFound(DeleteMedia(u, id))
                    /\ \A body \in MediaUpdateInputs :
                          IsSome(UpdateMediaSchema(body)) => IsNotFound(PutMedia(u, id, body))

(* Tenant 1's admin was answered "Site not found" for a site id while the  *)
(* sites 1 and 3 both exist: the id was that of tenant 2's site 3.         *)
C4_Witness ==
    /\ out = SiteNotFound
    /\ TenantSites \subseteq DOMAIN sites

(* Ids that name no row: the next each counter would hand out.             *)
AbsentSite == nextId.site
AbsentPage == nextId.page
AbsentMedia == nextId.media
(* C5: for every by-id operation on sites, pages and media and every       *)
(* caller, the answer for an id that names a resource of another tenant    *)
(* is the answer for an id that names no resource.                         *)
C5_OtherTenantAsAbsent ==
    \A u \in DOMAIN users :
        /\ \A id \in OtherSites(u) :
              /\ GetSiteResponse(u, id) = GetSiteResponse(u, AbsentSite)
              /\ DeleteSite(u, id) = DeleteSite(u, AbsentSite)
              /\ \A body \in SiteUpdateInputs :
                    PutSite(u, id, body) = PutSite(u, AbsentSite, body)
              /\ \A body \in SitePublishInputs :
                    PatchSitePublish(u, id, body) = PatchSitePublish(u, AbsentSite, body)
        /\ \A id \in OtherPages(u) :
              /\ GetPageResponse(u, id) = GetPageResponse(u, AbsentPage)
              /\ DeletePage(u, id) = DeletePage(u, AbsentPage)
              /\ \A body \in PageUpdateInputs :
                    PutPage(u, id, body) = PutPage(u, AbsentPage, body)
              /\ \A body \in PagePublishInputs :
                    PatchPagePublish(u, id, body) = PatchPagePublish(u, AbsentPage, body)
        /\ \A id \in OtherMedia(u) :
              /\ GetMediaByIdResponse(u, id) = GetMediaByIdResponse(u, AbsentMedia)
              /\ DeleteMedia(u, id) = DeleteMedia(u, AbsentMedia)
              /\ \A body \in MediaUpdateInputs :
                    PutMedia(u, id, body) = PutMedia(u, AbsentMedia, body)

(* Tenant 1's admin was answered "Page not found" when the only page ever  *)
(* created was tenant 2's.                                                 *)
C5_Witness ==
    /\ out = PageNotFound
    /\ nextId.page = 2
    /\ PagesOfTenant(2) = {1}
(* ------------------------------ slug conflicts ------------------------- *)
(* C11: when two concurrent POST /pages create a page with the same slug   *)
(* in the same Site, one succeeds and the other is answered with the       *)
(* "already exists" conflict error, never with another error kind: a       *)
(* create answered while a page of the Site holds its slug is answered     *)
(* "Slug already exists" and inserts nothing, any other create succeeds.   *)
C11_SameSlugOneConflict ==
    [][\A p \in Procs :
          (Answered(p) /\ req[p].route = "POST /pages") =>
              IF PageWithSlug(Get(req[p].data.siteId), Get(req[p].data.slug))
              THEN out'.error = "Slug already exists" /\ pages' = pages
              ELSE out'.status = 201]_vars

SlugsUnique ==
    \A i \in DOMAIN pages : \A j \in DOMAIN pages \ {i} :
        pages[i].siteId = pages[j].siteId => pages[i].slug # pages[j].slug
(* Another page of the Site holds the slug.                                *)
OtherPageHolds(siteId, slug, self) ==
    \E i \in DOMAIN pages \ self : pages[i].siteId = siteId /\ pages[i].slug = slug
SlugExists(resp) == resp.status = 400 /\ resp.error = "Slug already exists"

(* C12: slug uniqueness is per Site.  A POST /pages, and a PUT /pages/:id  *)
(* that carries a slug, is answered "Slug already exists" exactly when     *)
(* another page of the same Site holds the slug (a page of another Site    *)
(* holding it does not count), and otherwise succeeds; in every reachable  *)
(* state no two pages of one Site share a slug.                            *)
C12_SlugUniquePerSite ==
    /\ []SlugsUnique
    /\ [][\A p \in Procs :
             /\ (Answered(p) /\ req[p].route = "POST /pages") =>
                   IF OtherPageHolds(Get(req[p].data.siteId), Get(req[p].data.slug), {})
                   THEN SlugExists(out') ELSE out'.status = 201
             /\ (Answered(p) /\ req[p].route = "PUT /pages/:id") =>
                   IF /\ IsSome(req[p].data.slug)
                      /\ OtherPageHolds(pages[req[p].id].siteId,
                                        Get(req[p].data.slug), {req[p].id})
                   THEN SlugExists(out') ELSE out'.status = 200]_vars

(* A request was answered "Slug already exists" for a slug that its Site   *)
(* holds, while a page of the other Site holds the same slug too (created  *)
(* or renamed there without rejection).                                    *)
C12_Witness ==
    /\ SlugExists(out)
    /\ \E i \in DOMAIN pages : \E j \in DOMAIN pages :
          pages[i].siteId # pages[j].siteId /\ pages[i].slug = pages[j].slug

(* ------------------------------ failed writes -------------------------- *)
PageWrites == {"POST /pages", "PUT /pages/:id"}
Failed(resp) == resp.status >= 400

(* C13: a page create or update that fails (uniqueness violation,          *)
(* ownership denial, target page gone) leaves every page of the Site as it *)
(* was before the request, the isHomePage flags of the other pages         *)
(* included, also when interleaved with other requests: the step that      *)
(* answers the failure changes no page, and the failing request has        *)
(* cleared no home flag before.                                            *)
C13_FailedWriteLeavesPages ==
    [][/\ (out' # out /\ Failed(out')) => pages' = pages
       /\ \A p \in Procs :
             (Answered(p) /\ req[p].route \in PageWrites /\ Failed(out')) =>
                 ~req[p].cleared /\ pages' = pages]_vars

(* -------------------------------- accounts ----------------------------- *)
UsersOf(t) == {u \in DOMAIN users : users[u].tenantId = t}

(* C14: registration creates the Tenant and its initial ADMIN User         *)
(* together or creates neither: in every reachable state every Tenant has  *)
(* at least one User, also when the user insert fails (two concurrent      *)
(* registrations with the same email and different domains).               *)
C14_TenantHasUser ==
    \A t \in DOMAIN tenants : UsersOf(t) # {}

(* A registration has created a tenant with its admin, and another one    *)
(* that passed both checks stands at its transaction with the same email   *)
(* and another domain, still free: its tenant insert will succeed and its  *)
(* user insert throw.                                                      *)
C14_Witness ==
    /\ out.message = "Registration successful"
    /\ \E p \in Procs :
          /\ req[p].pc = "register.transaction"
          /\ UserWithEmail(Get(req[p].data.email)) = out.users
          /\ TenantWithDomain(Get(req[p].data.domain)) = {}

(* The cases in which a login must fail: nobody holds the email, its       *)
(* holder is inactive, or the password is not the holder's.                *)
LoginRefused(body) ==
    LET holders == UserWithEmail(Get(body.email)) IN
    \/ holders = {}
    \/ \E u \in holders :
          \/ ~users[u].isActive
          \/ users[u].password # bcryptHash(Get(body.password))

(* C15: POST /auth/login returns the same response (status and body) for   *)
(* an unknown email, for a known email with a wrong password and for an    *)
(* inactive user: failed logins that differ in whether the email exists    *)
(* are indistinguishable to the caller.                                    *)
C15_LoginFailuresAlike ==
    \A b1 \in LoginBodies : \A b2 \in LoginBodies :
        (LoginRefused(b1) /\ LoginRefused(b2)) =>
            /\ PostLogin(b1) = PostLogin(b2)
            /\ PostLogin(b1).resp.status = 401

(* A login was refused in a state where, of the emails tried, one belongs  *)
(* to nobody, one to the deactivated user, one to an active user and one   *)
(* to a user registered since the start (unknown before, known now).       *)
C15_Witness ==
    /\ out = InvalidCredentials
    /\ UserWithEmail(Email("0")) = {}
    /\ \E u \in UserWithEmail(Email("8")) : ~users[u].isActive
    /\ \E u \in UserWithEmail(Email("3")) : users[u].isActive
    /\ UserWithEmail(Email("n")) # {}

(* --------------------------------- tokens ------------------------------ *)
(* The ways a token is bad.                                                *)
BadSignature(token) == token.sig # "JWT_SECRET"
Expired(token) == now >= token.exp
BadPayload(token) ==
    \E k \in {"userId", "email", "role", "tenantId"} : ~IsSome(token.payload[k])
UserGone(token) ==
    /\ IsSome(token.payload.userId)
    /\ \/ Get(token.payload.userId) \notin DOMAIN users
       \/ ~users[Get(token.payload.userId)].isActive
BadToken(token) ==
    BadSignature(token) \/ Expired(token) \/ BadPayload(token) \/ UserGone(token)
(* The handler chains behind authenticate, for the header's caller.        *)
Chains(header) ==
    {Route(header, GetMeResponse(CallerOf(header)))}
    \cup {Route(header, PostSites(CallerOf(header), body)) : body \in TokenSiteBodies}
    \cup {Route(header, PostPages(CallerOf(header), body)) : body \in TokenPageBodies}

(* C16: AuthMiddleware.authenticate rejects the request with the           *)
(* authentication error (401) and never runs the route handler when the    *)
(* token's signature is invalid, the token is expired, the payload fails   *)
(* the identity schema, or the user does not exist or is inactive.         *)
C16_BadTokenIsAuthenticationError ==
    \A token \in PresentedTokens(now) :
        BadToken(token) =>
            /\ ~IsSome(authenticateHeader(Bearer(token)).user)
            /\ authenticateHeader(Bearer(token)).resp.status = 401
            /\ \A begin \in Chains(Bearer(token)) :
                  begin = Reply(authenticateHeader(Bearer(token)).resp)

(* C17: a refresh token produced by generateRefreshToken is never accepted *)
(* by AuthMiddleware.authenticate: as the bearer token of a protected      *)
(* route it never populates req.user and never reaches the handler (the    *)
(* request is answered by the middleware, with an error).                  *)
C17_RefreshTokenRejected ==
    \A token \in RefreshTokens(now) :
        /\ ~IsSome(authenticateHeader(Bearer(token)).user)
        /\ Failed(authenticateHeader(Bearer(token)).resp)
        /\ \A begin \in Chains(Bearer(token)) :
              begin = Reply(authenticateHeader(Bearer(token)).resp)

(* A request was answered by the middleware's catch block, which only a    *)
(* validly signed, unexpired token with a payload that fails the schema    *)
(* reaches (of the tokens presented, the refresh tokens), at a time when   *)
(* the access token issued with it has expired, and after the admin's      *)
(* access token had let a POST /sites through.                             *)
C17_Witness ==
    /\ out = AuthenticationFailed
    /\ now >= AccessDays
    /\ nextId.site > 4

(* --------------------------------- roles ------------------------------- *)
ActiveWithRole(roles) ==
    {u \in DOMAIN users : users[u].isActive /\ users[u].role \in roles}
(* The first steps of every mutating request on sites, on pages and on     *)
(* media that caller u can issue, on every id.                             *)
SiteMutations(u) ==
    {PostSites(u, body) : body \in TenantSiteCreateBodies}
    \cup {PutSite(u, id, body) : id \in SiteIds, body \in SiteUpdateInputs}
    \cup {PatchSitePublish(u, id, body) : id \in SiteIds, body \in SitePublishInputs}
    \cup {DeleteSite(u, id) : id \in SiteIds}
PageMutations(u) ==
    {PostPages(u, body) : body \in RolePageCreateBodies}
    \cup {PutPage(u, id, body) : id \in PageIds, body \in PageUpdateInputs}
    \cup {PatchPagePublish(u, id, body) : id \in PageIds, body \in PagePublishInputs}
    \cup {DeletePage(u, id) : id \in PageIds}
MediaMutations(u) ==
    {PostMedia(u, body) : body \in RoleMediaCreateBodies}
    \cup {PutMedia(u, id, body) : id \in MediaIds, body \in MediaUpdateInputs}
    \cup {DeleteMedia(u, id) : id \in MediaIds}
InsufficientRole(resp) ==
    resp.status = 403 /\ resp.error = "Insufficient permissions"
DeniedForRole(begin) == begin.slot = Idle /\ InsufficientRole(begin.resp)
(* The answers that tell a caller of the given role that the role is not   *)
(* enough.                                                                 *)
RoleDenials(role) ==
    {RoleDenied(roles, [role |-> role]).message : roles \in {EditorRoles, AdminRoles}}
(* A step that answers a request at once: no slot changes.                 *)
AnsweredAtOnce == req' = req /\ out' # NoResp

(* C18: a caller whose role is VIEWER cannot mutate anything: every POST,  *)
(* PUT, PATCH and DELETE on /sites, /pages and /media issued by a VIEWER   *)
(* is denied with the insufficient-role error and leaves the persistent    *)
(* state unchanged (the request is answered at once, it never occupies a   *)
(* slot and the step that answers it writes nothing).                      *)
C18_ViewerCannotMutate ==
    /\ [](/\ \A u \in ActiveWithRole({"VIEWER"}) :
               \A begin \in SiteMutations(u) \cup PageMutations(u) \cup MediaMutations(u) :
                   DeniedForRole(begin)
          /\ \A p \in Procs : ~Free(p) => users[req[p].uid].role # "VIEWER")
    /\ [][(AnsweredAtOnce /\ out'.message \in RoleDenials("VIEWER")) =>
             UNCHANGED dbVars]_vars

(* A viewer's request on a page or media route was denied while a page and *)
(* a media file exist for it to address.                                   *)
C18_Witness ==
    /\ out = RoleDenied(EditorRoles, [role |-> "VIEWER"])
    /\ DOMAIN pages # {}
    /\ DOMAIN media # {}

(* C19: site-level mutations (POST /sites, PUT /sites/:id,                 *)
(* PATCH /sites/:id/publish, DELETE /sites/:id) succeed only for callers   *)
(* whose role is ADMIN or SUPER_ADMIN; an EDITOR or VIEWER is denied with  *)
(* the insufficient-role error and no Site is created, changed or deleted: *)
(* every step that changes the site table is a step of an admin's request. *)
C19_SiteMutationsNeedAdmin ==
    /\ [](\A u \in ActiveWithRole({"EDITOR", "VIEWER"}) :
             \A begin \in SiteMutations(u) : DeniedForRole(begin))
    /\ [][/\ sites' # sites =>
                \E p \in Procs : Acts(p) /\ users[req[p].uid].role \in SiteAdmins
          /\ (AnsweredAtOnce /\ InsufficientRole(out')) => sites' = sites]_vars

(* An editor's site request was denied after an admin had created a site.  *)
C19_Witness ==
    /\ out = RoleDenied(AdminRoles, [role |-> "EDITOR"])
    /\ nextId.site > 4

(* The three denial causes, as responses: no authenticated identity (no    *)
(* header, another scheme, a token authenticate rejects), a role outside   *)
(* the route's list, an EDITOR on a page of another author of the tenant.  *)
NotAuthenticatedResponses ==
    {authenticateHeader(header).resp :
        header \in {h \in Headers(MaxTime) : ~IsSome(authenticateHeader(h).user)}}
RoleInsufficientResponses ==
    UNION {{begin.resp : begin \in
               {b \in SiteMutations(u) \cup PageMutations(u) \cup MediaMutations(u) :
                   b.slot = Idle /\ ~requireRole(EditorRoles, users[u])}}
           \cup {begin.resp : begin \in
               {b \in SiteMutations(u) : b.slot = Idle /\ ~requireRole(AdminRoles, users[u])}} :
           u \in ActiveWithRole(Roles)}
NotOwnerResponses ==
    UNION {UNION {{PutPage(u, id, body).resp : body \in RolePageUpdateBodies}
                  \cup {PatchPagePublish(u, id, body).resp : body \in TenantPagePublishBodies}
                  \cup {DeletePage(u, id).resp} :
                  id \in {i \in PagesInTenantOf(u) : pages[i].authorId # u}} :
           u \in ActiveWithRole({"EDITOR"})}

(* C20: the three denial causes produce pairwise distinguishable           *)
(* responses: "not authenticated", "role insufficient" and "not owner"     *)
(* each yield a different error response.                                  *)
C20_DenialsDistinguishable ==
    /\ NotAuthenticatedResponses \cap RoleInsufficientResponses = {}
    /\ RoleInsufficientResponses \cap NotOwnerResponses = {}
    /\ NotAuthenticatedResponses \cap NotOwnerResponses = {}
    /\ \A resp \in NotAuthenticatedResponses \cup RoleInsufficientResponses
                   \cup NotOwnerResponses : Failed(resp)

(* An editor was answered "not owner" for a page the admin authored, in a  *)
(* state where requests without identity and with a role outside the list  *)
(* are denied too.                                                         *)
C20_Witness ==
    /\ out = NotOwner("You can only edit your own pages")
    /\ NotOwnerResponses # {}
    /\ RoleInsufficientResponses # {}
    /\ NotAuthenticatedResponses # {}

TenantDomainsUnique ==
    \A s \in DOMAIN tenants : \A t \in DOMAIN tenants \ {s} :
        tenants[s].domain # tenants[t].domain
TenantDomainTaken(resp) == resp.status = 400 /\ resp.error = "Domain already taken"

(* C21: a registration whose tenant domain an existing Tenant holds is     *)
(* answered with the "Domain already taken" conflict error and creates no  *)
(* Tenant and no User (whenever a registration that got past its email     *)
(* check is answered while a Tenant holds its domain); in every reachable  *)
(* state no two Tenants share a domain.                                    *)
C21_TenantDomainConflict ==
    /\ []TenantDomainsUnique
    /\ [][\A p \in Procs :
             (/\ Answered(p)
              /\ req[p].route = "POST /auth/register"
              /\ TenantWithDomain(Get(req[p].data.domain)) # {}) =>
                 /\ TenantDomainTaken(out')
                 /\ tenants' = tenants
                 /\ users' = users]_vars

EmailsUnique ==
    \A u \in DOMAIN users : \A v \in DOMAIN users \ {u} :
        users[u].email # users[v].email

(* C22: in every reachable state no two Users share an email; a            *)
(* registration answered while a User holds its email does not succeed,    *)
(* receives no tokens and inserts no User, and a registration that         *)
(* succeeds has inserted the one User that holds its email, so of two      *)
(* concurrent registrations with one email at most one succeeds.           *)
C22_EmailUnique ==
    /\ []EmailsUnique
    /\ [][\A p \in Procs :
             (Answered(p) /\ req[p].route = "POST /auth/register") =>
                 LET email == Get(req[p].data.email) IN
                 /\ UserWithEmail(email) # {} =>
                       /\ out'.status # 201
                       /\ out'.tokens = {}
                       /\ users' = users
                 /\ (out'.status = 201 \/ out'.tokens # {}) =>
                       /\ out'.users = DOMAIN users' \ DOMAIN users
                       /\ Cardinality(out'.users) = 1
                       /\ \A u \in out'.users : users'[u].email = email]_vars

(* One registration has succeeded and holds its tokens while another       *)
(* registration with the same email, started before the first committed,   *)
(* is still in flight.                                                     *)
C22_Witness ==
    \E p \in Procs : \E u \in out.users :
        /\ out.status = 201
        /\ out.tokens # {}
        /\ ~Free(p)
        /\ req[p].route = "POST /auth/register"
        /\ req[p].data.email = Some(users[u].email)

SiteDomainsUnique ==
    \A i \in DOMAIN sites : \A j \in DOMAIN sites \ {i} :
        IsSome(sites[i].domain) => sites[i].domain # sites[j].domain
(* Another Site, of any tenant, holds the domain.                          *)
OtherSiteHolds(domain, self) ==
    IsSome(domain) /\ \E i \in DOMAIN sites \ self : sites[i].domain = domain

(* C23: POST /sites and PUT /sites/:id with a domain that another Site, of *)
(* any tenant, holds are answered "Domain already taken" and change        *)
(* nothing, whether the handler answers on its first step or on a later    *)
(* one; in every reachable state no two Sites share a domain.              *)
C23_SiteDomainUnique ==
    /\ []SiteDomainsUnique
    /\ [](\A u \in SiteCallers : \A body \in SiteDomainBodies :
             /\ (OtherSiteHolds(body.domain, {}) /\ PostSites(u, body).slot = Idle) =>
                   PostSites(u, body).resp = DomainTaken
             /\ \A id \in DOMAIN sites :
                   (/\ sites[id].tenantId = users[u].tenantId
                    /\ OtherSiteHolds(body.domain, {id})
                    /\ PutSite(u, id, body).slot = Idle) =>
                       PutSite(u, id, body).resp = DomainTaken)
    /\ [][\A p \in Procs :
             /\ (/\ Answered(p)
                 /\ req[p].route = "POST /sites"
                 /\ OtherSiteHolds(req[p].data.domain, {})) =>
                    out' = DomainTaken /\ sites' = sites
             /\ (/\ Answered(p)
                 /\ req[p].route = "PUT /sites/:id"
                 /\ OtherSiteHolds(req[p].data.domain, {req[p].id})) =>
                    out' = DomainTaken /\ sites' = sites]_vars

C25_NoOrphans ==
    /\ [](/\ \A i \in DOMAIN pages : pages[i].siteId \in DOMAIN sites
          /\ \A i \in DOMAIN media : media[i].siteId \in DOMAIN sites)
    /\ [][\A id \in DOMAIN sites \ DOMAIN sites' :
             /\ \A i \in DOMAIN pages' : pages'[i].siteId # id
             /\ \A i \in DOMAIN media' : media'[i].siteId # id]_vars

(* Site 1 was deleted after a page and a media had been created on it, and *)
(* a create for site 1 that had passed its site lookup before the delete   *)
(* was refused by the insert.                                              *)
C25_Witness ==
    /\ 1 \notin DOMAIN sites
    /\ nextId.page > 1
    /\ nextId.media > 1
    /\ out \in {InternalError("Failed to create page"),
                InternalError("Failed to upload media")}

(* The callers the ownership rule lets change a page: an ADMIN or          *)
(* SUPER_ADMIN of the page's tenant, or the EDITOR who wrote it.           *)
MayChangePage(u, id) ==
    /\ users[u].isActive
    /\ sites[pages[id].siteId].tenantId = users[u].tenantId
    /\ \/ users[u].role \in {"ADMIN", "SUPER_ADMIN"}
       \/ users[u].role = "EDITOR" /\ pages[id].authorId = u

(* C26: for a page in any status and an authorized caller, PATCH           *)
(* /pages/:id/publish with any of DRAFT, PUBLISHED, ARCHIVED is admitted   *)
(* (taken to its update, not answered an error), and with no other request *)
(* interleaved it succeeds and leaves the page in the status asked for.    *)
C26_StatusGraphFree ==
    /\ [](\A u \in DOMAIN users : \A id \in DOMAIN pages : \A body \in PublishBodies :
             MayChangePage(u, id) =>
                 LET begin == PatchPagePublish(u, id, body) IN
                 /\ begin.slot.pc = "publishPage.update"
                 /\ begin.slot.id = id
                 /\ begin.slot.data.status = body.status)
    /\ [][\A p \in Procs :
             (Answered(p) /\ req[p].route = "PATCH /pages/:id/publish") =>
                 /\ out'.status = 200
                 /\ req[p].id \in DOMAIN pages'
                 /\ pages'[req[p].id].status = Get(req[p].data.status)
                 /\ \A i \in DOMAIN pages \ {req[p].id} :
                       i \in DOMAIN pages' /\ pages'[i].status = pages[i].status]_vars

(* A PATCH has just moved a page that carries a publication stamp back to  *)
(* DRAFT, and another page of the site is ARCHIVED.                        *)
C26_Witness ==
    /\ out.status = 200
    /\ out.message = "Page status changed successfully"
    /\ \E i \in out.pages : pages[i].status = "DRAFT" /\ IsSome(pages[i].publishedAt)
    /\ \E j \in DOMAIN pages : pages[j].status = "ARCHIVED"

HomeWrites == {"POST /pages", "PUT /pages/:id"}

(* C27: when a POST /pages or PUT /pages/:id with isHomePage = true is     *)
(* answered with success and no other request ran in between, the page it  *)
(* wrote has isHomePage = true and every other page of the same Site has   *)
(* isHomePage = false.                                                     *)
C27_HomePageSetSequentially ==
    [][\A p \in Procs :
          (/\ Answered(p)
           /\ req[p].route \in HomeWrites
           /\ req[p].data.isHomePage = Some(TRUE)
           /\ out'.status \in {200, 201}) =>
              /\ Cardinality(out'.pages) = 1
              /\ req[p].route = "PUT /pages/:id" => out'.pages = {req[p].id}
              /\ \A t \in out'.pages :
                    /\ pages'[t].isHomePage
                    /\ \A i \in DOMAIN pages' \ {t} :
                          pages'[i].siteId = pages'[t].siteId => ~pages'[i].isHomePage]_vars

(* A request with isHomePage = true stands before its write after its      *)
(* updateMany took the flag from the Site's former home page, while the    *)
(* other Site keeps a home page of its own.                                *)
C27_Witness ==
    \E p \in Procs :
        /\ req[p].pc \in {"createPage.create", "updatePage.update"}
        /\ req[p].data.isHomePage = Some(TRUE)
        /\ req[p].cleared
        /\ LET site == IF req[p].route = "POST /pages"
                       THEN Get(req[p].data.siteId) ELSE Get(req[p].existing).siteId
           IN  \E i \in DOMAIN pages : pages[i].isHomePage /\ pages[i].siteId # site

(* C28: a PUT /pages/:id whose body carries no slug, or the slug the page  *)
(* has, skips the slug lookup and is never answered "Slug already exists"; *)
(* a PUT whose body carries another slug runs the lookup, and is answered  *)
(* "Slug already exists" when a page of the Site holds that slug.          *)
C28_SlugCheckOnUpdate ==
    /\ [](\A u \in SlugCallers : \A id \in DOMAIN pages : \A body \in SlugUpdateBodies :
             LET begin == PutPage(u, id, body) IN
             IF ~IsSome(body.slug) \/ Get(body.slug) = pages[id].slug
             THEN /\ ~SlugExists(begin.resp)
                  /\ begin.slot.pc = "updatePage.update"
             ELSE begin.slot.pc = "updatePage.findUnique")
    /\ [][\A p \in Procs :
             (Answered(p) /\ req[p].route = "PUT /pages/:id") =>
                 LET r == req[p]
                     unchanged == ~IsSome(r.data.slug)
                                     \/ Get(r.data.slug) = pages[r.id].slug
                 IN  /\ unchanged => ~SlugExists(out')
                     /\ SlugExists(out') <=>
                           /\ r.pc = "updatePage.findUnique"
                           /\ OtherPageHolds(pages[r.id].siteId, Get(r.data.slug), {r.id})]_vars

(* A PUT that carries the page's own slug stands at its update, past the   *)
(* point of the lookup, while the Site holds a second page.                *)
C28_Witness ==
    \E p \in Procs :
        /\ req[p].pc = "updatePage.update"
        /\ req[p].id \in DOMAIN pages
        /\ req[p].data.slug = Some(pages[req[p].id].slug)
        /\ \E i \in DOMAIN pages \ {req[p].id} : pages[i].siteId = pages[req[p].id].siteId

(* C29: every request is answered exactly once and the process keeps       *)
(* serving.  Under fair scheduling a started request always reaches its    *)
(* end, whatever its database calls, the token check or the body parse     *)
(* raise; the step that ends a request sends its one response; a step that *)
(* suspends a request or moves it to its next database call sends nothing; *)
(* and a step touches one request only.                                    *)
C29_OneResponsePerRequest ==
    /\ \A p \in LiveProcs : (~Free(p)) ~> Free(p)
    /\ [][\A p \in Procs :
             /\ Answered(p) => out' # NoResp
             /\ (req'[p] # req[p] /\ ~Free(p)') => out' = out
             /\ req'[p] # req[p] => \A q \in Procs \ {p} : req'[q] = req[q]]_vars

(* A database call of a DELETE /sites/:id threw: the request is over,      *)
(* answered 500 by the catch block, no request is left in flight and the   *)
(* sites are all still there.                                              *)
C29_Witness ==
    /\ out = InternalError("Failed to delete site")
    /\ \A p \in LiveProcs : Free(p)
    /\ sites = InitSites
    /\ pages # <<>>

(* C30: a request whose body fails its schema is answered "Validation      *)
(* error" before its handler reads or writes a table.  In every state, for *)
(* every id (one that exists, one of the other tenant, one that does not   *)
(* exist) the handler's first step on a failing body is that answer, with  *)
(* no database call to wait for; no request that waited for a database     *)
(* call is answered "Validation error"; and the step that gives the answer *)
(* changes no table.                                                       *)
Admitted(u) == IsSome(authenticate(u)) /\ requireRole(AdminRoles, Get(authenticate(u)))
FailsFast(data, begin) == ~IsSome(data) => begin = Reply(ValidationError)
C30_ValidationFailsFast ==
    /\ [](/\ \A u \in ParseCallers : Admitted(u) =>
               /\ \A body \in ParsePageCreateBodies :
                     FailsFast(CreatePageSchema(body), PostPages(u, body))
               /\ \A id \in PageIds, body \in ParsePageUpdateBodies :
                     FailsFast(UpdatePageSchema(body), PutPage(u, id, body))
               /\ \A id \in PageIds, body \in ParsePublishBodies :
                     FailsFast(PublishPageSchema(body), PatchPagePublish(u, id, body))
               /\ \A body \in ParseSiteBodies :
                     FailsFast(CreateSiteSchema(body), PostSites(u, body))
               /\ \A id \in SiteIds, body \in ParseSiteBodies :
                     FailsFast(UpdateSiteSchema(body), PutSite(u, id, body))
               /\ \A id \in SiteIds, body \in ParseSitePublishBodies :
                     FailsFast(PublishSiteSchema(body), PatchSitePublish(u, id, body))
               /\ \A body \in ParseMediaCreateBodies :
                     FailsFast(CreateMediaSchema(body), PostMedia(u, body))
               /\ \A id \in MediaIds, body \in ParseMediaUpdateBodies :
                     FailsFast(UpdateMediaSchema(body), PutMedia(u, id, body))
          /\ \A body \in ParseRegisterBodies :
                FailsFast(RegisterSchema(body), PostRegister(body))
          /\ \A body \in ParseLoginBodies :
                FailsFast(LoginSchema(body), PostLogin(body)))
    /\ [][/\ \A p \in Procs : Answered(p) => out' # ValidationError
          /\ (out' = ValidationError /\ out # ValidationError) =>
                 UNCHANGED <<dbVars, req>>]_vars

(* A failing body was answered "Validation error" while the tables hold a  *)
(* registered tenant, a page and a media file, and a site has a domain:    *)
(* lookups by id, slug, filename, domain and email would all have found    *)
(* rows.                                                                   *)
C30_Witness ==
    /\ out = ValidationError
    /\ pages # <<>>
    /\ media # <<>>
    /\ DOMAIN tenants # DOMAIN InitTenants
    /\ \E i \in DOMAIN sites : IsSome(sites[i].domain)

(* C31: a Site's isPublished flag and its Pages are independent.  A step   *)
(* of PATCH /sites/:id/publish changes nothing but the isPublished flag of *)
(* the site it addresses: the page table, and with it every status and     *)
(* publishedAt, stays as it is; and a step of a page route changes no      *)
(* site.                                                                   *)
PageRoutes ==
    {"POST /pages", "PUT /pages/:id", "PATCH /pages/:id/publish", "DELETE /pages/:id"}
StepOf(p, routes) ==
    /\ req'[p] # req[p]
    /\ req[p].route \in routes \/ req'[p].route \in routes
C31_SitePublishIndependent ==
    [][\A p \in Procs :
          /\ StepOf(p, {"PATCH /sites/:id/publish"}) =>
                /\ pages' = pages
                /\ DOMAIN sites' = DOMAIN sites
                /\ \A i \in DOMAIN sites :
                      /\ i # req[p].id => sites'[i] = sites[i]
                      /\ sites'[i] = [sites[i] EXCEPT !.isPublished = sites'[i].isPublished]
          /\ StepOf(p, PageRoutes) => sites' = sites]_vars

(* PATCH /sites/1/publish has just published site 1, which holds a page    *)
(* that is still a draft and was never published.                          *)
C31_Witness ==
    /\ out = [Ok(200, "Site published or unpublished successfully") EXCEPT !.sites = {1}]
    /\ 1 \in DOMAIN sites /\ sites[1].isPublished
    /\ \E i \in DOMAIN pages :
          /\ pages[i].siteId = 1
          /\ pages[i].status = "DRAFT" /\ pages[i].publishedAt = None

(* C32: a request answered 400, 401, 403 or 404 has written nothing.  The  *)
(* step that gives such an answer changes no table, and the request it     *)
(* ends has not passed a write (the updateMany of a home page, the only    *)
(* write a handler makes before its last database call).                   *)
ClientErrors == {400, 401, 403, 404}
PastFirstWrite(r) ==
    /\ r.pc \in {"createPage.create", "updatePage.update"}
    /\ r.data.isHomePage = Some(TRUE)
C32_RefusedRequestWritesNothing ==
    [][(out'.status \in ClientErrors /\ (out' # out \/ \E p \in Procs : Answered(p))) =>
          /\ UNCHANGED dbVars
          /\ \A p \in Procs : Answered(p) => ~PastFirstWrite(req[p]) /\ ~req[p].cleared]_vars

(* A POST /pages that asked for a home page was answered "Slug already     *)
(* exists", and the site's home page is still the home page.               *)
C32_Witness ==
    /\ out.status = 400 /\ out.error = "Slug already exists"
    /\ \E i \in DOMAIN pages : pages[i].isHomePage /\ pages[i].siteId = 1

(* C33: in every reachable state a page whose status is PUBLISHED has a    *)
(* publishedAt, whatever the interleaving of creations and status changes. *)
C33_PublishedHasStamp ==
    \A i \in DOMAIN pages : pages[i].status = "PUBLISHED" => IsSome(pages[i].publishedAt)

(* A page is PUBLISHED while another request, which read the row when it   *)
(* was not, stands before its own write of PUBLISHED to that row.          *)
C33_Witness ==
    \E p \in Procs :
        /\ req[p].pc \in {"updatePage.update", "publishPage.update"}
        /\ req[p].data.status = Some("PUBLISHED")
        /\ Get(req[p].existing).status # "PUBLISHED"
        /\ req[p].id \in DOMAIN pages
        /\ pages[req[p].id].status = "PUBLISHED"

(* C34: ownership links never change after creation.  No step changes the *)
(* tenantId of a site, the siteId or authorId of a page, the siteId of a   *)
(* media file or the tenantId of a user, whatever keys the body carries.   *)
Kept(table, table2, column) ==
    \A i \in DOMAIN table \cap DOMAIN table2 : table2[i][column] = table[i][column]
C34_LinksNeverChange ==
    [][/\ Kept(sites, sites', "tenantId")
       /\ Kept(pages, pages', "siteId")
       /\ Kept(pages, pages', "authorId")
       /\ Kept(media, media', "siteId")
       /\ Kept(users, users', "tenantId")]_vars

(* A PUT /pages/:id, a PUT /sites/:id and a PUT /media/:id whose bodies    *)
(* named another site, author and tenant have been applied (the new slug,  *)
(* domain and filename are in the rows), the last of them just now, and    *)
(* the links of the three rows are those of their creation.                *)
C34_Witness ==
    /\ out.message = "Media updated successfully"
    /\ \E i \in DOMAIN media : media[i].filename = "g" /\ media[i].siteId = 1
    /\ \E i \in DOMAIN pages :
          pages[i].slug = SlugAbout /\ pages[i].siteId = 1 /\ pages[i].authorId \in LinkCallers
    /\ sites[1].domain = Some("d") /\ sites[1].tenantId = 1

(* C35: the identity used for authorization is the user's row as it is    *)
(* when the token is verified, not the token's payload.  A token issued to *)
(* a user who has since been deactivated or deleted is rejected by         *)
(* authenticate, unexpired as it is, and no handler runs; for any other    *)
(* user req.user carries the role and tenantId of the row, and the role    *)
(* check of POST /sites follows the row: it denies the bearer of an ADMIN  *)
(* token whose row is no admin's and admits the bearer of an EDITOR token  *)
(* whose row is an admin's.                                                *)
C35_IdentityFromCurrentRecord ==
    \A u \in IdentityUsers :
        LET header == Bearer(IdentityToken(u))
            result == authenticateHeader(header)
        IN  /\ verify(IdentityToken(u), now) = "ok"
            /\ IF u \notin DOMAIN users \/ ~users[u].isActive
               THEN /\ result = Rejected(Unauthenticated)
                    /\ \A body \in IdentitySiteBodies :
                          Route(header, PostSites(CallerOf(header), body))
                              = Reply(Unauthenticated)
                    /\ Route(header, GetMeResponse(CallerOf(header))) = Reply(Unauthenticated)
               ELSE /\ result.user = Some([id |-> u, role |-> users[u].role,
                                           tenantId |-> users[u].tenantId])
                    /\ \A body \in IdentitySiteBodies :
                          LET begin == Route(header, PostSites(CallerOf(header), body)) IN
                          IF users[u].role \in AdminRoles
                          THEN begin.slot.pc = "createSite.create"
                          ELSE begin = Reply(RoleDenied(AdminRoles, Get(result.user)))

(* The admin's token, which had let a POST /sites through, has just been   *)
(* rejected because the admin's row is now inactive, while the editor's    *)
(* row has been made an admin's.                                           *)
C35_Witness ==
    /\ out = Unauthenticated
    /\ DOMAIN sites # DOMAIN InitSites
    /\ 3 \in DOMAIN users /\ ~users[3].isActive
    /\ 1 \in DOMAIN users /\ users[1].role = "ADMIN"

(* C36: a page operation changes the isHomePage flag of a page other than *)
(* its target only when it is a POST or PUT that sets isHomePage = true    *)
(* and the other page belongs to the target's site.  Pages of other sites  *)
(* are never touched; a POST or PUT with the flag false or absent, a PATCH *)
(* publish and a DELETE change no other page's flag.                       *)
FlagChanged(i) ==
    /\ i \in DOMAIN pages /\ i \in DOMAIN pages'
    /\ pages'[i].isHomePage # pages[i].isHomePage
C36_OtherFlagsOnlyOnSetHome ==
    [][\A p \in Procs : Acts(p) =>
          \A i \in DOMAIN pages :
              (FlagChanged(i) /\ ~(req[p].route # "POST /pages" /\ i = req[p].id)) =>
                  /\ req[p].route \in {"POST /pages", "PUT /pages/:id"}
                  /\ req[p].data.isHomePage = Some(TRUE)
                  /\ pages[i].siteId = TargetSite(p)
                  /\ pages[i].isHomePage /\ ~pages'[i].isHomePage]_vars

(* A POST /pages that sets the home flag has cleared the flag of its site  *)
(* and stands before its create: the site has no home page now, and the    *)
(* home page of the other site is as it was.                               *)
C36_Witness ==
    \E p \in Procs :
        /\ req[p].pc = "createPage.create" /\ req[p].cleared
        /\ \A i \in DOMAIN pages :
              pages[i].siteId = Get(req[p].data.siteId) => ~pages[i].isHomePage
        /\ \E i \in DOMAIN pages :
              pages[i].siteId # Get(req[p].data.siteId) /\ pages[i].isHomePage

(* C37: the page POST /pages creates has the caller as its author, the    *)
(* supplied status or DRAFT when none is supplied, the supplied home flag  *)
(* or false, and a publishedAt that is the current time exactly when the   *)
(* status is PUBLISHED and null otherwise.                                 *)
Created == DOMAIN pages' \ DOMAIN pages
Supplied(o, default) == IF IsSome(o) THEN Get(o) ELSE default
C37_CreatedPage ==
    [][\A i \in Created :
          \E p \in Procs :
              /\ Answered(p) /\ req[p].route = "POST /pages"
              /\ out'.status = 201 /\ out'.pages = {i}
              /\ pages'[i].authorId = req[p].uid
              /\ pages'[i].status = Supplied(req[p].data.status, "DRAFT")
              /\ pages'[i].isHomePage = Supplied(req[p].data.isHomePage, FALSE)
              /\ pages'[i].publishedAt =
                    IF pages'[i].status = "PUBLISHED" THEN Some(now) ELSE None]_vars

(* The editor has created a PUBLISHED home page after the clock had        *)
(* advanced, and the admin a page with no status and no flag: the first is *)
(* the editor's, stamped with the time of its creation, the second is the  *)
(* admin's, a DRAFT, no home page, without a stamp.                        *)
C37_Witness ==
    /\ \E i \in DOMAIN pages :
          /\ pages[i].authorId = 1 /\ pages[i].status = "PUBLISHED"
          /\ pages[i].isHomePage /\ pages[i].publishedAt = Some(1)
    /\ \E i \in DOMAIN pages :
          /\ pages[i].authorId = 3 /\ pages[i].status = "DRAFT"
          /\ ~pages[i].isHomePage /\ pages[i].publishedAt = None

(* C38: a POST /sites or PUT /sites/:id that supplies a domain another     *)
(* site holds is answered "Domain already taken" and not with an internal  *)
(* error, for every supplied value, the empty string included.  Stated of  *)
(* the step that ends a request which went past its first step; with one   *)
(* request at a time the sites are then as they were when it started.      *)
SuppliedDomainHeld(r) ==
    /\ r.route \in {"POST /sites", "PUT /sites/:id"}
    /\ IsSome(r.data.domain)
    /\ OtherSiteHolds(r.data.domain, IF r.route = "POST /sites" THEN {} ELSE {r.id})
C38_HeldDomainIsDomainTaken ==
    [][\A p \in Procs :
          (Answered(p) /\ SuppliedDomainHeld(req[p])) =>
              out'.status # 500 /\ out' = DomainTaken]_vars

(* The same for the domains that are not the empty string.                 *)
C38_HeldNonEmptyDomainIsDomainTaken ==
    [][\A p \in Procs :
          (Answered(p) /\ SuppliedDomainHeld(req[p]) /\ req[p].data.domain # Some("")) =>
              out' = DomainTaken]_vars
====
